---- MODULE Spec2Model ----
(***************************************************************************)
(* Risk-adaptive decision pipeline of the KuCoin futures bot:              *)
(*   - AdaptiveRiskSettings   (risk_management/adaptive_settings.py)       *)
(*   - RiskController         (risk_management/risk_controller.py)         *)
(*   - PositionManager        (risk_management/position_manager.py)        *)
(*   - StrategyManager        (strategies/strategy_manager.py)             *)
(*   - MarketAnalyzer         (utils/market_analyzer.py)                   *)
(*                                                                         *)
(* Number representation.  The Python code computes with floats; the model *)
(* computes with exact decimals held in integers:                          *)
(*   volatility            thousandths   (0.096  -> 96)                    *)
(*   trend_strength        tenths        (-0.5   -> -5)                    *)
(*   win_rate, confidence  hundredths    (0.6    -> 60)                    *)
(*   sharpe_ratio          tenths        (1.2    -> 12)                    *)
(*   *_percent parameters  tenths of 1%  (2.0 %  -> 20)                    *)
(* round(x, 1) and round(x) give the nearest tenth / integer.  When the    *)
(* exact decimal value lies half-way between two candidates the result of  *)
(* the Python expression is decided by the binary representation error of  *)
(* the double that was computed; that is modelled by the tie argument (a   *)
(* free choice of the environment) for products of factors, and by the     *)
(* table HalfDownTenths for the product stop_loss * 1.5, whose double      *)
(* value is a function of the one-decimal stop_loss alone.                 *)
(***************************************************************************)
EXTENDS Integers, Sequences, FiniteSets, TLC

VARIABLES
    \* AdaptiveRiskSettings
    market_conditions,   \* the MarketConditions argument of the next call
    performance,         \* the StrategyPerformance argument of the next call
    tie_up,              \* the results whose half-way product rounds up
    current_params,      \* AdaptiveRiskSettings._current_params
    returned,            \* value of the last calculate_adaptive_parameters
    trade_results,       \* AdaptiveRiskSettings._trade_results, in tenths
    recorded,            \* number of record_trade_result calls so far
    \* RiskController
    config,              \* the RiskConfig shared with the PositionManager
    consecutive_losses,  \* RiskController._consecutive_losses
    peak_balance,        \* RiskController._peak_balance
    results,             \* the pnl of every on_trade_result since reset_state
    last,                \* the last operation: its arguments and its result
    \* The exchange behind KuCoinFuturesClient
    account,             \* accountEquity and availableBalance
    positions,           \* the open positions, at most one per symbol
    orders_placed,       \* number of orders the exchange has accepted
    \* PositionManager
    daily_pnl,           \* PositionManager._daily_pnl
    daily_trades,        \* PositionManager._daily_trades
    trade_history,       \* PositionManager._trade_history
    trades_at_reset,     \* len(_trade_history) at the last reset_daily_stats
    orders_at_reset,     \* orders_placed at the last reset_daily_stats
    \* StrategyManager
    strategies,          \* per strategy: enabled and performance_score
    strategy_performance,\* StrategyManager._strategy_performance
    last_signals,        \* StrategyManager._last_signals, for one symbol
    \* MarketAnalyzer and the market it reads
    market,              \* per contract: the data a fetch yields, or none
    market_cache,        \* MarketAnalyzer._market_cache
    \* KuCoinFuturesBot
    pending_signals      \* KuCoinFuturesBot._pending_signals, per symbol

adaptiveVars ==
    <<market_conditions, performance, tie_up, current_params, returned,
      trade_results, recorded>>

riskVars == <<config, consecutive_losses, peak_balance, results>>

exchangeVars == <<account, positions, orders_placed>>

managerVars ==
    <<daily_pnl, daily_trades, trade_history, trades_at_reset, orders_at_reset>>

strategyVars == <<strategies, strategy_performance, last_signals>>

analyzerVars == <<market, market_cache>>

botVars == <<pending_signals>>

vars ==
    <<adaptiveVars, riskVars, last, exchangeVars, managerVars, strategyVars,
      analyzerVars, botVars>>

\* What the operations of one component leave alone.
otherVars ==
    <<adaptiveVars, exchangeVars, managerVars, strategyVars, analyzerVars, botVars>>
frameManager == <<adaptiveVars, riskVars, strategyVars, analyzerVars, botVars>>
frameStrategy ==
    <<adaptiveVars, riskVars, exchangeVars, managerVars, analyzerVars, botVars>>
frameAnalyzer ==
    <<adaptiveVars, riskVars, exchangeVars, managerVars, strategyVars,
      botVars>>

Max(a, b) == IF a >= b THEN a ELSE b
Min(a, b) == IF a <= b THEN a ELSE b
Abs(a) == IF a < 0 THEN -a ELSE a

\* round(n/d) for n >= 0, d > 0; up decides an exact tie.
RoundTie(n, d, up) ==
    LET q == n \div d
        r == n % d
    IN  IF 2 * r > d THEN q + 1
        ELSE IF 2 * r < d THEN q
        ELSE IF up THEN q + 1 ELSE q

(***************************************************************************)
(* AdaptiveRiskSettings                                                    *)
(***************************************************************************)
MIN_LEVERAGE == 1
MAX_LEVERAGE_CAP == 20
MIN_POSITION_SIZE == 10
MAX_POSITION_SIZE == 100
MIN_STOP_LOSS == 5
MAX_STOP_LOSS == 50
MIN_TAKE_PROFIT == 10
MAX_TAKE_PROFIT == 100
BASE_LEVERAGE == 5
BASE_POSITION_SIZE == 30
BASE_STOP_LOSS == 20
BASE_TAKE_PROFIT == 40

\* The volatility factor growing with the volatility (a faulty variant).
LeverageVolatilityRising(mc) ==
    IF mc.volatility > 100 THEN Max(300, 1000 + mc.volatility * 3)
    ELSE IF mc.volatility < 30 THEN 1200
    ELSE 1000

\* Both factors of the leverage that depend on the inputs, in thousandths.
LeverageVolatilityFactor(mc) ==
    IF mc.volatility > 100 THEN Max(300, 1000 - mc.volatility * 3)
    ELSE IF mc.volatility < 30 THEN 1200
    ELSE 1000

LeveragePerformanceFactor(perf) ==
    IF perf.total_trades >= 10
    THEN IF perf.win_rate >= 60 THEN 1000 + (perf.win_rate - 50) * 5
         ELSE IF perf.win_rate < 40 THEN Max(500, perf.win_rate * 15)
         ELSE 1000
    ELSE 800

\* max(MIN_LEVERAGE, min(int(round(base * vf * pf * tf)), MAX_LEVERAGE_CAP));
\* vf, pf in thousandths, tf = 1 + |trend| * 0.2 in hundredths.
calculate_optimal_leverage(mc, perf, tie) ==
    LET volatility_factor == LeverageVolatilityFactor(mc)
        performance_factor == LeveragePerformanceFactor(perf)
        trend_factor == 100 + Abs(mc.trend_strength) * 2
        optimal == BASE_LEVERAGE * volatility_factor * performance_factor
                       * trend_factor
    IN  Max(MIN_LEVERAGE,
            Min(RoundTie(optimal, 100000000, tie), MAX_LEVERAGE_CAP))

PositionVolatilityFactor(mc) ==
    IF mc.volatility > 80 THEN Max(400, 1000 - mc.volatility * 4)
    ELSE 1000 + (80 - mc.volatility) * 2

PositionSharpeFactor(perf) ==
    IF perf.total_trades >= 10
    THEN IF perf.sharpe_ratio > 10
         THEN Min(1500, 1000 + (perf.sharpe_ratio - 10) * 25)
         ELSE IF perf.sharpe_ratio < 0
         THEN Max(500, 800 + perf.sharpe_ratio * 10)
         ELSE 1000
    ELSE 800

\* The position size without the final clamp (a faulty variant).
position_size_unclamped(mc, perf, tie) ==
    RoundTie(3 * PositionVolatilityFactor(mc) * PositionSharpeFactor(perf),
             100000, tie)

\* max(MIN_POSITION_SIZE, min(round(base * vf * sf, 1), MAX_POSITION_SIZE)),
\* result in tenths of a percent; base 3.0, factors in thousandths.
calculate_optimal_position_size(mc, perf, tie) ==
    LET optimal == 3 * PositionVolatilityFactor(mc) * PositionSharpeFactor(perf)
    IN  Max(MIN_POSITION_SIZE,
            Min(RoundTie(optimal, 100000, tie), MAX_POSITION_SIZE))

StopWinRateFactor(perf) ==
    IF perf.total_trades >= 10
    THEN IF perf.win_rate >= 60 THEN 9
         ELSE IF perf.win_rate < 40 THEN 12
         ELSE 10
    ELSE 11

\* max(MIN_STOP_LOSS, min(round(base * vf * wf, 1), MAX_STOP_LOSS)) in
\* tenths; base 2.0, vf = clamp(1 + (vol - 0.05) * 10, 0.5, 2.0) in
\* hundredths, wf in tenths.
calculate_optimal_stop_loss(mc, perf, tie) ==
    LET volatility_factor == Max(50, Min(100 + (mc.volatility - 50), 200))
        optimal == 2 * volatility_factor * StopWinRateFactor(perf)
    IN  Max(MIN_STOP_LOSS, Min(RoundTie(optimal, 100, tie), MAX_STOP_LOSS))

\* One-decimal stop-loss values s (in tenths) for which the double
\* s/10 * 1.5 is not above the decimal x.x5 it stands for and round(., 1)
\* returns the lower tenth.
HalfDownTenths == {7, 15, 17, 19, 23, 29, 33, 35, 39, 41, 43}

\* max(MIN_TAKE_PROFIT, min(round(max(optimal, stop_loss * 1.5), 1),
\* MAX_TAKE_PROFIT)) in tenths; optimal = 4.0 * trend_factor (hundredths)
\* * profit_factor (hundredths) * volatility_factor (thousandths), so both
\* operands of max are held in units of 10^-7.
calculate_optimal_take_profit(mc, perf, stop_loss, tie) ==
    LET min_target == stop_loss * 15 * 100000
        trend_factor == 100 + Abs(mc.trend_strength) * 5
        profit_factor ==
            IF perf.total_trades >= 10 /\ perf.avg_profit > 0
            THEN Min(150, 100 + perf.avg_profit)
            ELSE 100
        volatility_factor ==
            IF mc.volatility > 50 THEN 1000 + mc.volatility * 3 ELSE 1000
        computed == 4 * trend_factor * profit_factor * volatility_factor
        optimal == Max(computed, min_target)
        up == IF computed > min_target THEN tie
              ELSE IF computed < min_target THEN stop_loss \notin HalfDownTenths
              ELSE stop_loss \notin HalfDownTenths \/ tie
    IN  Max(MIN_TAKE_PROFIT,
            Min(RoundTie(optimal, 1000000, up), MAX_TAKE_PROFIT))

\* The parameters calculate_adaptive_parameters stores and returns.
\* ties is the set of the four results whose half-way product rounds up.
calculate_adaptive_parameters(mc, perf, ties) ==
    LET stop_loss == calculate_optimal_stop_loss(mc, perf, "stop" \in ties)
    IN  [max_leverage |->
             calculate_optimal_leverage(mc, perf, "leverage" \in ties),
         max_position_size_percent |->
             calculate_optimal_position_size(mc, perf, "size" \in ties),
         stop_loss_percent |-> stop_loss,
         take_profit_percent |->
             calculate_optimal_take_profit(mc, perf, stop_loss,
                                           "target" \in ties)]

TieSets == SUBSET {"leverage", "size", "stop", "target"}

\* calculate_adaptive_parameters(None, None) substitutes these.
DefaultMarketConditions ==
    [volatility |-> 50, trend_strength |-> 0, volume_ratio |-> 10]
DefaultPerformance ==
    [win_rate |-> 50, avg_profit |-> 0, avg_loss |-> 0, sharpe_ratio |-> 0,
     total_trades |-> 0]

NoParams == [max_leverage |-> 0, max_position_size_percent |-> 0,
             stop_loss_percent |-> 0, take_profit_percent |-> 0]

\* AdaptiveRiskSettings.__init__
InitialParams ==
    [max_leverage |-> BASE_LEVERAGE,
     max_position_size_percent |-> BASE_POSITION_SIZE,
     stop_loss_percent |-> BASE_STOP_LOSS,
     take_profit_percent |-> BASE_TAKE_PROFIT]

(***************************************************************************)
(* RiskController.  Money is held in whole currency units, a stop-loss as  *)
(* a price, a risk score in thousandths (truncated); None is 0.            *)
(***************************************************************************)
\* RiskConfig; every *_percent field in tenths of a percent.
DefaultConfig ==
    [max_leverage |-> 10, max_position_size_percent |-> 50,
     stop_loss_percent |-> 20, take_profit_percent |-> 40,
     max_open_positions |-> 5,
     max_daily_loss_percent |-> 100, adaptive_mode |-> TRUE]

MAX_CONSECUTIVE_LOSSES == 5
DRAWDOWN_THRESHOLD == 15

NoSignal == [signal_type |-> "none"]
NoCall == [op |-> "none"]

\* drawdown > self._drawdown_threshold, for peak > 0
DrawdownExceeded(peak, total) ==
    peak > 0 /\ (peak - total) * 100 > DRAWDOWN_THRESHOLD * peak

\* portfolio.daily_pnl < -(total_balance * max_daily_loss_percent / 100)
\* The daily loss compared with <= (a faulty variant).
DailyLossReached(cfg, total, daily) ==
    daily * 1000 <= -(total * cfg.max_daily_loss_percent)

DailyLossExceeded(cfg, total, daily) ==
    daily * 1000 < -(total * cfg.max_daily_loss_percent)

Rejected(why, warning) ==
    [outcome |-> "returned", approved |-> FALSE, adjusted_signal |-> NoSignal,
     risk_score |-> 1000, warnings |-> <<warning>>, reason |-> why]

\* The adjusted leverage without the cut for consecutive losses (a faulty
\* variant).
AdjustedLeverageHalvedOnly(signal, portfolio, cfg, losses) ==
    IF portfolio.unrealized_pnl < 0
           /\ Abs(portfolio.unrealized_pnl) * 100 > 5 * portfolio.total_balance
    THEN Min(Max(1, signal.leverage \div 2), cfg.max_leverage)
    ELSE Min(signal.leverage, cfg.max_leverage)

\* The stop-loss passed on as proposed (a faulty variant).
ProposedStopLoss(signal, cfg) == signal.stop_loss

\* The adjusted leverage without the final cap (a faulty variant).
AdjustedLeverageUncapped(signal, portfolio, cfg, losses) ==
    LET halved ==
            IF /\ portfolio.unrealized_pnl < 0
               /\ Abs(portfolio.unrealized_pnl) * 100
                      > 5 * portfolio.total_balance
            THEN Max(1, signal.leverage \div 2)
            ELSE signal.leverage
    IN  IF losses > 2 THEN Max(1, halved - losses) ELSE halved

\* The leverage of the adjusted signal (lines 88-104).
AdjustedLeverage(signal, portfolio, cfg, losses) ==
    LET halved ==
            IF /\ portfolio.unrealized_pnl < 0
               /\ Abs(portfolio.unrealized_pnl) * 100
                      > 5 * portfolio.total_balance
            THEN Max(1, signal.leverage \div 2)
            ELSE signal.leverage
        reduced == IF losses > 2 THEN Max(1, halved - losses) ELSE halved
    IN  Min(reduced, cfg.max_leverage)

\* The stop-loss of the adjusted signal (lines 106-120).
AdjustedStopLoss(signal, cfg) ==
    IF signal.stop_loss # 0 /\ signal.price # 0
    THEN IF Abs(signal.price - signal.stop_loss) * 1000
                < cfg.stop_loss_percent * signal.price
         THEN IF signal.signal_type = "long"
              THEN (signal.price * (1000 - cfg.stop_loss_percent)) \div 1000
              ELSE (signal.price * (1000 + cfg.stop_loss_percent)) \div 1000
         ELSE signal.stop_loss
    ELSE signal.stop_loss

\* The warnings of an approved assessment, in the order they are appended.
ApprovalWarnings(signal, portfolio, cfg, losses) ==
    (IF signal.confidence < 50 THEN <<"low_confidence">> ELSE << >>)
    \o (IF /\ portfolio.unrealized_pnl < 0
           /\ Abs(portfolio.unrealized_pnl) * 100 > 5 * portfolio.total_balance
        THEN <<"unrealized_losses">> ELSE << >>)
    \o (IF losses > 2 THEN <<"consecutive_losses">> ELSE << >>)
    \o (IF AdjustedStopLoss(signal, cfg) # signal.stop_loss
        THEN <<"stop_loss_adjusted">> ELSE << >>)

\* assess_signal(signal, portfolio) with the peak already raised: the
\* RiskAssessment it returns, or the exception it raises.
assess_signal(signal, portfolio, cfg, peak, losses) ==
    IF DrawdownExceeded(peak, portfolio.total_balance)
    THEN Rejected("drawdown", "Maximum drawdown exceeded")
    ELSE IF losses >= MAX_CONSECUTIVE_LOSSES
    THEN Rejected("consecutive_losses", "Too many consecutive losses")
    ELSE IF DailyLossExceeded(cfg, portfolio.total_balance,
                              portfolio.daily_pnl)
    THEN Rejected("daily_loss", "Daily loss limit reached")
    ELSE IF portfolio.unrealized_pnl < 0 /\ portfolio.total_balance = 0
    THEN [outcome |-> "ZeroDivisionError"]
    ELSE [outcome |-> "returned", approved |-> TRUE,
          adjusted_signal |->
              [signal EXCEPT
                  !.leverage = AdjustedLeverage(signal, portfolio, cfg, losses),
                  !.stop_loss = AdjustedStopLoss(signal, cfg)],
          risk_score |->
              Min(1000,
                  (IF peak > 0
                   THEN ((peak - portfolio.total_balance) * 2000) \div peak
                   ELSE 0)
                  + losses * 40
                  + (IF signal.confidence < 50 THEN 200 ELSE 0)),
          warnings |-> ApprovalWarnings(signal, portfolio, cfg, losses),
          reason |->
              IF ApprovalWarnings(signal, portfolio, cfg, losses) = << >>
              THEN "Signal approved"
              ELSE "Signal approved with adjustments"]

\* The peak left untouched (a faulty variant).
StalePeak(peak, portfolio) == peak

\* if portfolio.total_balance > self._peak_balance (lines 42-44)
RaisedPeak(peak, portfolio) ==
    IF portfolio.total_balance > peak THEN portfolio.total_balance ELSE peak

\* A result of zero counted as a loss (a faulty variant).
on_trade_result_nonpositive(losses, pnl) == IF pnl <= 0 THEN losses + 1 ELSE 0

\* on_trade_result(pnl): the new value of _consecutive_losses
on_trade_result(losses, pnl) == IF pnl < 0 THEN losses + 1 ELSE 0

InitCounters ==
    /\ consecutive_losses = 0
    /\ peak_balance = 0
    /\ results = << >>

InitRisk ==
    /\ config = DefaultConfig
    /\ InitCounters

\* Arguments of assess_signal.
Leverages == {1, 2, 7, 25}
StopDistances == {0, 10, 20, 50}
SignalsFor(symbols, confidences) ==
    { [signal_type |-> t, symbol |-> y, confidence |-> c, price |-> 1000,
       stop_loss |-> IF d = 0 THEN 0
                     ELSE IF t = "long" THEN 1000 - d ELSE 1000 + d,
       take_profit |-> IF t = "long" THEN 1100 ELSE 900,
       leverage |-> l] :
        t \in {"long", "short"}, y \in symbols, c \in confidences,
        d \in StopDistances, l \in Leverages }
SignalSet == SignalsFor({"BTC"}, {40, 75})

PortfolioArgs ==
    [total_balance : {0, 80000, 85000, 100000}, available_balance : {80000},
     unrealized_pnl : {-6000, 0}, daily_pnl : {-11000, -10000, 0},
     positions : {{}}, trade_count : {0}]

MaxResults == 6

\* The result of an assessment is handed to the caller before the next
\* assessment is made.
AssessSignalWith(signals, portfolios) ==
    \E signal \in signals, portfolio \in portfolios :
        /\ last.op # "assess_signal"
        /\ peak_balance' = RaisedPeak(peak_balance, portfolio)
        /\ last' = [op |-> "assess_signal", signal |-> signal,
                    portfolio |-> portfolio,
                    result |-> assess_signal(signal, portfolio, config,
                                             peak_balance',
                                             consecutive_losses)]
        /\ UNCHANGED <<config, consecutive_losses, results>>

OnTradeResultWith(pnls, cap) ==
    \E pnl \in pnls :
        /\ Len(results) < cap
        /\ consecutive_losses' = on_trade_result(consecutive_losses, pnl)
        /\ results' = Append(results, pnl)
        /\ last' = [op |-> "on_trade_result", pnl |-> pnl]
        /\ UNCHANGED <<config, peak_balance>>

\* The caller has consumed the result of the last operation.
Return ==
    /\ last # NoCall
    /\ last' = NoCall
    /\ UNCHANGED <<adaptiveVars, riskVars, exchangeVars, managerVars,
                   strategyVars, analyzerVars, botVars>>

\* reset_state()
ResetState ==
    /\ consecutive_losses' = 0
    /\ peak_balance' = 0
    /\ results' = << >>
    /\ last' = [op |-> "reset_state"]
    /\ UNCHANGED <<config, otherVars>>

(***************************************************************************)
(* PositionManager and the exchange it talks to.  A request either         *)
(* succeeds or raises; an accepted market order opens the position.        *)
(***************************************************************************)
Symbols == {"BTC", "ETH"}
NoPosition == [side |-> "none"]

RECURSIVE SumOver(_, _)
\* sum(f[x] for x in set)
SumOver(f, set) ==
    IF set = {} THEN 0
    ELSE LET x == CHOOSE y \in set : TRUE
         IN  f[x] + SumOver(f, set \ {x})

OpenPositions ==
    { positions[y] : y \in { z \in DOMAIN positions : positions[z] # NoPosition } }

\* get_portfolio_state(): built from the exchange when both requests
\* succeed, the zero portfolio of the except branch otherwise.
get_portfolio_state(ok) ==
    IF ok
    THEN [total_balance |-> account.equity,
          available_balance |-> account.available,
          unrealized_pnl |->
              SumOver([y \in DOMAIN positions |->
                          IF positions[y] = NoPosition THEN 0
                          ELSE positions[y].unrealized_pnl], DOMAIN positions),
          positions |-> OpenPositions,
          daily_pnl |-> daily_pnl,
          trade_count |-> daily_trades]
    ELSE [total_balance |-> 0, available_balance |-> 0, unrealized_pnl |-> 0,
          positions |-> {}, daily_pnl |-> 0, trade_count |-> 0]

\* The percentages p (in tenths) for which 100000 * p / 100, evaluated in
\* binary floating point, is below the exact product.
BudgetBelowPercents == {23, 41, 46, 51, 82, 87, 92, 97}

\* The further percentages for which max_position_value / effective_leverage
\* * effective_leverage is below max_position_value, by leverage.
QuotientBelowPercents(effective_leverage) ==
    CASE effective_leverage \in {7, 14} -> {75}
      [] effective_leverage = 11 -> {17, 34, 57, 68, 79}
      [] effective_leverage = 13 -> {69, 77}
      [] effective_leverage = 15 -> {79}
      [] effective_leverage = 19 -> {10, 20, 40, 61, 80}
      [] OTHER -> {}

\* The floating-point value of margin_required * effective_leverage is
\* below the exact margin budget times leverage (total_balance 100000).
FloatBelow(cfg, effective_leverage) ==
    cfg.max_position_size_percent
        \in BudgetBelowPercents \cup QuotientBelowPercents(effective_leverage)

\* floor(min(margin_budget, 0.9 * available) * leverage / price) in exact
\* arithmetic.
ExactContracts(signal, portfolio, cfg) ==
    LET effective_leverage == Min(signal.leverage, cfg.max_leverage)
        value == Min(portfolio.total_balance
                         * cfg.max_position_size_percent,
                     portfolio.available_balance * 900
                         * effective_leverage)
    IN  value \div (1000 * signal.price)

\* int(margin_required * effective_leverage / signal.price): one less than
\* the exact floor when the product is a hair below a whole multiple of
\* the price.
FloatContracts(signal, portfolio, cfg) ==
    LET effective_leverage == Min(signal.leverage, cfg.max_leverage)
        budget == portfolio.total_balance * cfg.max_position_size_percent
        limit == portfolio.available_balance * 900 * effective_leverage
    IN  IF /\ budget <= limit
           /\ budget > 0
           /\ budget % (1000 * signal.price) = 0
           /\ FloatBelow(cfg, effective_leverage)
        THEN ExactContracts(signal, portfolio, cfg) - 1
        ELSE ExactContracts(signal, portfolio, cfg)

\* calculate_position_size without the final max(position_size, 1) (a
\* faulty variant).
position_size_unfloored(signal, portfolio, cfg) ==
    IF portfolio.available_balance <= 0 THEN 0
    ELSE FloatContracts(signal, portfolio, cfg)

\* calculate_position_size(signal, portfolio): margin * leverage / price
\* with margin = min(total * pct / 100 / leverage, available * 0.9).
calculate_position_size(signal, portfolio, cfg) ==
    IF portfolio.available_balance <= 0 THEN 0
    ELSE Max(FloatContracts(signal, portfolio, cfg), 1)

\* can_open_position without the per-symbol check (a faulty variant).
can_open_any_symbol(signal, portfolio, cfg, pnl) ==
    IF Cardinality(portfolio.positions) >= cfg.max_open_positions
    THEN "Maximum open positions reached"
    ELSE IF DailyLossExceeded(cfg, portfolio.total_balance, pnl)
    THEN "Daily loss limit reached"
    ELSE IF calculate_position_size(signal, portfolio, cfg) <= 0
    THEN "Insufficient balance for position"
    ELSE "OK"

\* can_open_position(signal, portfolio): the reason; "OK" stands for True.
can_open_position(signal, portfolio, cfg, pnl) ==
    IF Cardinality(portfolio.positions) >= cfg.max_open_positions
    THEN "Maximum open positions reached"
    ELSE IF \E pos \in portfolio.positions : pos.symbol = signal.symbol
    THEN "Already in position"
    ELSE IF DailyLossExceeded(cfg, portfolio.total_balance, pnl)
    THEN "Daily loss limit reached"
    ELSE IF calculate_position_size(signal, portfolio, cfg) <= 0
    THEN "Insufficient balance for position"
    ELSE "OK"

\* The order open_position hands to place_order.
OrderFor(signal, portfolio, cfg) ==
    [symbol |-> signal.symbol,
     side |-> IF signal.signal_type = "long" THEN "buy" ELSE "sell",
     size |-> calculate_position_size(signal, portfolio, cfg),
     leverage |-> Min(signal.leverage, cfg.max_leverage)]

AccountStates ==
    {[equity |-> 100000, available |-> 90000],
     [equity |-> 0, available |-> 0]}

InitManager ==
    /\ account = [equity |-> 100000, available |-> 90000]
    /\ positions = [y \in Symbols |-> NoPosition]
    /\ orders_placed = 0
    /\ daily_pnl = 0
    /\ daily_trades = 0
    /\ trade_history = << >>
    /\ trades_at_reset = 0
    /\ orders_at_reset = 0

\* KuCoinFuturesBot.__init__: no pending signal
NoPending == [strategy_name |-> "none"]
InitBot == pending_signals = [y \in Symbols |-> NoPending]

MaxOrders == 3
MaxTrades == 2

\* The exchange reports another balance.
AccountMove ==
    /\ last = NoCall
    /\ \E a \in AccountStates : a # account /\ account' = a
    /\ UNCHANGED <<last, positions, orders_placed, managerVars, frameManager>>

\* get_portfolio_state()
GetPortfolioState ==
    /\ last = NoCall
    /\ \E ok \in BOOLEAN :
           last' = [op |-> "get_portfolio_state", ok |-> ok,
                    portfolio |-> get_portfolio_state(ok)]
    /\ UNCHANGED <<exchangeVars, managerVars, frameManager>>

\* open_position(signal, strategy_name): read_ok is the outcome of the
\* portfolio read.  place_order is called when can_open_position agrees; the
\* exchange accepts the order, answers with an error code (no exception is
\* raised and an Order is still returned), or the request raises.
OpenPositionWith(signals) ==
    \E signal \in signals, read_ok \in BOOLEAN,
       answer \in {"accepted", "rejected", "raised"} :
        LET portfolio == get_portfolio_state(read_ok)
            can_open == can_open_position(signal, portfolio, config, daily_pnl)
            order == OrderFor(signal, portfolio, config)
            placed == can_open = "OK"
        IN  /\ orders_placed < MaxOrders
            /\ daily_trades < MaxOrders
            /\ last' = [op |-> "open_position", signal |-> signal,
                        portfolio |-> portfolio, can_open |-> can_open,
                        placed |-> placed,
                        order |-> IF placed THEN order ELSE NoPosition,
                        answer |-> IF placed THEN answer ELSE "none"]
            /\ IF placed /\ answer = "accepted"
               THEN /\ positions' =
                          [positions EXCEPT ![signal.symbol] =
                              [symbol |-> signal.symbol,
                               side |-> IF order.side = "buy" THEN "long"
                                        ELSE "short",
                               size |-> order.size,
                               entry_price |-> signal.price,
                               leverage |-> order.leverage,
                               unrealized_pnl |-> 0]]
                    /\ orders_placed' = orders_placed + 1
               ELSE UNCHANGED <<positions, orders_placed>>
            /\ daily_trades' =
                   IF placed /\ answer # "raised" THEN daily_trades + 1
                   ELSE daily_trades
            /\ UNCHANGED <<account, daily_pnl, trade_history, trades_at_reset,
                           orders_at_reset>>

\* pnl_amount without the leverage factor (a faulty variant).
UnleveredPnl(position, exit_price) ==
    LET move == IF position.side = "long"
                THEN exit_price - position.entry_price
                ELSE position.entry_price - exit_price
    IN  (move * position.size) \div position.entry_price

\* pnl_amount of close_position (lines 186-191)
RealizedPnl(position, exit_price) ==
    LET move == IF position.side = "long"
                THEN exit_price - position.entry_price
                ELSE position.entry_price - exit_price
    IN  (move * position.size * position.leverage) \div position.entry_price

ExitPrices == {1000, 2000}

\* close_position(symbol, strategy_name, exit_price): read_ok is the outcome
\* of the portfolio read; closing is "ok", "refused" (False) or "raised".
ClosePosition ==
    \E symbol \in Symbols, exit_price \in ExitPrices, read_ok \in BOOLEAN,
       closing \in {"ok", "refused", "raised"} :
        LET portfolio == get_portfolio_state(read_ok)
            found == { pos \in portfolio.positions : pos.symbol = symbol }
            closed == found # {} /\ closing = "ok"
            position == CHOOSE pos \in found : TRUE
            record == [symbol |-> symbol, side |-> position.side,
                       entry_price |-> position.entry_price,
                       exit_price |-> exit_price, size |-> position.size,
                       leverage |-> position.leverage,
                       pnl |-> RealizedPnl(position, exit_price),
                       strategy_name |-> "strategy"]
        IN  /\ last = NoCall
            /\ Len(trade_history) < MaxTrades
            /\ last' = [op |-> "close_position", symbol |-> symbol,
                        portfolio |-> portfolio,
                        trade |-> IF closed THEN record ELSE NoPosition]
            /\ IF closed
               THEN /\ trade_history' = Append(trade_history, record)
                    /\ daily_pnl' = daily_pnl + record.pnl
                    /\ positions' = [positions EXCEPT ![symbol] = NoPosition]
               ELSE UNCHANGED <<trade_history, daily_pnl, positions>>
            /\ UNCHANGED <<account, orders_placed, daily_trades,
                           trades_at_reset, orders_at_reset, frameManager>>

\* reset_daily_stats()
ResetDailyStats ==
    /\ last = NoCall
    /\ daily_pnl' = 0
    /\ daily_trades' = 0
    /\ trades_at_reset' = Len(trade_history)
    /\ orders_at_reset' = orders_placed
    /\ last' = [op |-> "reset_daily_stats"]
    /\ UNCHANGED <<exchangeVars, trade_history, frameManager>>


(***************************************************************************)
(* StrategyManager.  What a strategy's analyze() answers is an input: no   *)
(* signal, an exception, or a Signal.  A signal's reason is kept as the    *)
(* set of strategy names its text contains.  performance_score is in       *)
(* millionths, each update rounded to the nearest millionth.               *)
(***************************************************************************)
StrategyNames == <<"TrendFollowing", "Scalping">>
StrategySet == { StrategyNames[i] : i \in 1..Len(StrategyNames) }
INITIAL_SCORE == 500000
RECENT_TRADES == 20
HISTORY_LIMIT == 100

\* update_performance without the clamp of profit_loss / 100 (a faulty
\* variant).
update_performance_unclamped(score, profit_loss) ==
    LET target == 500000 + (profit_loss * 10000) \div 2
    IN  (target + 9 * score + 5) \div 10

\* BaseStrategy.update_performance(profit_loss): the new score
update_performance(score, profit_loss) ==
    LET normalized_pnl == Max(Min(profit_loss * 10000, 1000000), -1000000)
        target == 500000 + normalized_pnl \div 2
    IN  (target + 9 * score + 5) \div 10

RECURSIVE ScoreAfter(_, _)
\* The score after the first count trades of the given history.
ScoreAfter(history, count) ==
    IF count = 0 THEN INITIAL_SCORE
    ELSE update_performance(ScoreAfter(history, count - 1), history[count])

\* The score of a strategy whose trades so far are the given history.
ScoreOf(history) == ScoreAfter(history, Len(history))

RECURSIVE Sum(_)
Sum(seq) == IF seq = << >> THEN 0 ELSE Head(seq) + Sum(Tail(seq))

Wins(seq) == Cardinality({ i \in 1..Len(seq) : seq[i] > 0 })

\* The whole history taken for the recent one (a faulty variant).
whole_history(history) == history

\* history[-20:]
recent_history(history) ==
    SubSeq(history, Len(history) - RECENT_TRADES + 1, Len(history))

\* auto_adjust_strategies re-enabling on the recent sum alone (a faulty
\* variant).
AdjustedEnabledOnPnl(enabled, history) ==
    IF Len(history) < RECENT_TRADES THEN enabled
    ELSE LET recent_pnl == Sum(recent_history(history))
             wins == Wins(recent_history(history))
         IN  IF recent_pnl < -10 /\ wins * 10 < 3 * RECENT_TRADES
             THEN FALSE
             ELSE IF recent_pnl > 5 /\ ~enabled
             THEN TRUE
             ELSE enabled

\* auto_adjust_strategies(), for one strategy: its enabled flag afterwards
AdjustedEnabled(enabled, history) ==
    IF Len(history) < RECENT_TRADES THEN enabled
    ELSE LET recent_pnl == Sum(recent_history(history))
             wins == Wins(recent_history(history))
         IN  IF recent_pnl < -10 /\ wins * 10 < 3 * RECENT_TRADES
             THEN FALSE
             ELSE IF recent_pnl > 5 /\ wins * 2 > RECENT_TRADES /\ ~enabled
             THEN TRUE
             ELSE enabled

\* get_signals without the HOLD filter (a faulty variant).
KeepsSignal(output) == output.signal_type \notin {"none", "raise"}

\* get_signals: the answers that are appended to the list of signals.
Collected(output) == output.signal_type \notin {"none", "raise", "hold"}

\* get_signals calling analyze of every strategy (a faulty variant).
InvokedAlways(name) == TRUE

\* get_signals: the strategies whose analyze is called.
Invoked(name) == strategies[name].enabled

RECURSIVE get_signals(_, _)
\* get_signals: the signals of the first n strategies, in strategy order.
get_signals(outputs, n) ==
    IF n = 0 THEN << >>
    ELSE LET name == StrategyNames[n]
             rest == get_signals(outputs, n - 1)
         IN  IF Invoked(name) /\ Collected(outputs[name])
             THEN Append(rest, outputs[name])
             ELSE rest

\* _last_signals after get_signals
LastSignalsAfter(outputs) ==
    [name \in StrategySet |->
        IF Invoked(name) /\ Collected(outputs[name])
        THEN outputs[name]
        ELSE last_signals[name]]

\* The strategies a signal is attributed to: named in its reason, or holding
\* an equal signal as their last one.
Attributable(signal, lasts) ==
    { i \in 1..Len(StrategyNames) :
        \/ \E w \in 1..Len(signal.reason) : signal.reason[w] = StrategyNames[i]
        \/ lasts[StrategyNames[i]] = signal }

\* scored_signals: (combined_score, signal, strategy name) per signal
ScoredSignals(signals, lasts) ==
    [k \in 1..Len(signals) |->
        LET i == CHOOSE i \in Attributable(signals[k], lasts) :
                     \A j \in Attributable(signals[k], lasts) : i <= j
        IN  [score |-> signals[k].confidence
                           * strategies[StrategyNames[i]].performance_score,
             signal |-> signals[k],
             strategy |-> StrategyNames[i]]]

\* The last signal with the highest combined score (a faulty variant).
LastBestOf(scored) ==
    IF scored = << >> THEN NoSignal
    ELSE LET k == CHOOSE k \in 1..Len(scored) :
                      /\ \A j \in 1..Len(scored) : scored[j].score <= scored[k].score
                      /\ \A j \in (k + 1)..Len(scored) :
                             scored[j].score < scored[k].score
         IN  scored[k].signal

\* get_best_signal: the first signal with the highest combined score (the
\* sort is stable), or none.
BestOf(scored) ==
    IF scored = << >> THEN NoSignal
    ELSE LET k == CHOOSE k \in 1..Len(scored) :
                      /\ \A j \in 1..Len(scored) : scored[j].score <= scored[k].score
                      /\ \A j \in 1..(k - 1) : scored[j].score < scored[k].score
         IN  scored[k].signal

NoAnswer == [signal_type |-> "none"]
Raises == [signal_type |-> "raise"]

\* The reason texts the strategies write, as words.
StrategyReasons ==
    [TrendFollowing |-> { <<"Bullish", "EMA", "crossover">> },
     Scalping |-> { <<"Price", "at", "lower", "BB">> }]

\* Signals with the reason texts of one strategy.
StrategySignals(name) ==
    [signal_type : {"long", "short", "close", "hold"}, symbol : {"BTC"},
     confidence : {50, 80}, reason : StrategyReasons[name]]

\* analyze of one strategy: None, an exception, or a signal.
StrategyOutputs(name) == {NoAnswer, Raises} \cup StrategySignals(name)

InitStrategies ==
    /\ strategies =
           [name \in StrategySet |->
               [enabled |-> TRUE, performance_score |-> INITIAL_SCORE]]
    /\ strategy_performance = [name \in StrategySet |-> << >>]
    /\ last_signals = [name \in StrategySet |-> NoSignal]

\* get_best_signal(symbol, prices, volumes)
GetBestSignal ==
    \E outputs \in [StrategySet ->
                        UNION { StrategyOutputs(name) : name \in StrategySet }] :
        LET signals == get_signals(outputs, Len(StrategyNames))
            lasts == LastSignalsAfter(outputs)
        IN  /\ last = NoCall
            /\ \A name \in StrategySet : outputs[name] \in StrategyOutputs(name)
            /\ last_signals' = lasts
            /\ last' = [op |-> "get_best_signal", outputs |-> outputs,
                        invoked |-> { name \in StrategySet : Invoked(name) },
                        signals |-> signals,
                        result |-> BestOf(ScoredSignals(signals, lasts))]
            /\ UNCHANGED <<strategies, strategy_performance, frameStrategy>>

\* update_strategy_performance(strategy_name, profit_loss)
UpdateStrategyPerformanceWith(pnls, cap) ==
    \E name \in StrategySet, profit_loss \in pnls :
        LET appended == Append(strategy_performance[name], profit_loss)
        IN  /\ last = NoCall
            /\ Len(strategy_performance[name]) < cap
            /\ strategies' =
                   [strategies EXCEPT ![name].performance_score =
                       update_performance(@, profit_loss)]
            /\ strategy_performance' =
                   [strategy_performance EXCEPT ![name] =
                       IF Len(appended) > HISTORY_LIMIT
                       THEN SubSeq(appended, Len(appended) - HISTORY_LIMIT + 1,
                                   Len(appended))
                       ELSE appended]
            /\ last' = [op |-> "update_strategy_performance", name |-> name,
                        profit_loss |-> profit_loss]
            /\ UNCHANGED last_signals

\* enable_strategy(name, enabled)
EnableStrategy ==
    \E name \in StrategySet, enabled \in BOOLEAN :
        /\ last = NoCall
        /\ strategies[name].enabled # enabled
        /\ strategies' = [strategies EXCEPT ![name].enabled = enabled]
        /\ last' = [op |-> "enable_strategy", name |-> name]
        /\ UNCHANGED <<strategy_performance, last_signals, frameStrategy>>

\* auto_adjust_strategies()
AutoAdjustStrategies ==
    /\ last = NoCall
    /\ strategies' =
           [name \in StrategySet |->
               [strategies[name] EXCEPT
                   !.enabled = AdjustedEnabled(@, strategy_performance[name])]]
    /\ last' = [op |-> "auto_adjust_strategies",
                before |-> [name \in StrategySet |-> strategies[name].enabled]]
    /\ UNCHANGED <<strategy_performance, last_signals, frameStrategy>>

(***************************************************************************)
(* MarketAnalyzer.  The market holds, per contract, the volume (thousands  *)
(* of USD) and the volatility (thousandths) a fetch computes, or no data   *)
(* when the fetch fails.  Scores are in thousandths.                       *)
(***************************************************************************)
Contracts == <<"SOLUSDTM", "ETHUSDTM", "XBTUSDTM">>
ContractSet == { Contracts[i] : i \in 1..Len(Contracts) }
NoData == [volume_24h |-> -1]
TradingDefaults ==
    [min_volume_usd |-> 1000, min_volatility |-> 20, max_volatility |-> 150]

\* calculate_pair_score(market_data)
calculate_pair_score(symbol, data, trading) ==
    LET volume_score ==
            Min((data.volume_24h * 1000) \div trading.min_volume_usd, 10000)
        volatility_score ==
            IF data.volatility < trading.min_volatility
            THEN (data.volatility * 1000) \div trading.min_volatility
            ELSE IF data.volatility > trading.max_volatility
            THEN (trading.max_volatility * 1000) \div data.volatility
            ELSE 1000 + ((data.volatility - trading.min_volatility) * 1000)
                            \div (trading.max_volatility
                                      - trading.min_volatility)
    IN  [symbol |-> symbol, volume_score |-> volume_score,
         volatility_score |-> volatility_score, trend_score |-> 1000,
         total_score |->
             (4 * volume_score + 4 * volatility_score + 2 * 1000) \div 10]

\* The two filters of select_best_pairs
PassesFilters(data, trading) ==
    /\ data.volume_24h >= trading.min_volume_usd
    /\ data.volatility >= trading.min_volatility
    /\ data.volatility <= trading.max_volatility

\* The subsequence of the symbols that satisfy keep, in their order.
RECURSIVE Kept(_, _)
Kept(symbols, keep) ==
    IF symbols = << >> THEN << >>
    ELSE IF Head(symbols) \in keep
    THEN <<Head(symbols)>> \o Kept(Tail(symbols), keep)
    ELSE Kept(Tail(symbols), keep)

\* list.sort(key=..., reverse=True): descending by key, equal keys in their
\* original order.
SortedDescending(symbols, key) ==
    LET before(i, j) ==
            \/ key[symbols[i]] > key[symbols[j]]
            \/ key[symbols[i]] = key[symbols[j]] /\ i < j
        rank(i) == 1 + Cardinality({ j \in 1..Len(symbols) : before(j, i) })
    IN  [k \in 1..Len(symbols) |->
            symbols[CHOOSE i \in 1..Len(symbols) : rank(i) = k]]

\* The fetched pairs left in contract order (a faulty variant).
InContractOrder(fetched) == fetched

\* all_pairs_with_data.sort(key=volume_24h, reverse=True)
ByVolume(fetched) ==
    SortedDescending(fetched, [y \in ContractSet |-> market[y].volume_24h])

\* seq[:count] for count >= 0
Take(seq, count) == SubSeq(seq, 1, Min(count, Len(seq)))

\* select_best_pairs(max_pairs): the symbols of the result, in order
select_best_pairs(max_pairs, trading) ==
    LET fetched == Kept(Contracts, { y \in ContractSet : market[y] # NoData })
        passing ==
            Kept(Contracts,
                 { y \in ContractSet :
                     market[y] # NoData /\ PassesFilters(market[y], trading) })
        scored_pairs ==
            SortedDescending(passing,
                [y \in ContractSet |->
                    IF market[y] = NoData THEN 0
                    ELSE calculate_pair_score(y, market[y], trading).total_score])
    IN  IF scored_pairs = << >> /\ fetched # << >>
        THEN Take(Take(ByVolume(fetched), max_pairs), max_pairs)
        ELSE Take(scored_pairs, max_pairs)

InitMarket ==
    /\ market = [y \in ContractSet |-> NoData]
    /\ market_cache = [y \in ContractSet |-> NoData]

\* get_market_data(symbol)
GetMarketData ==
    \E symbol \in ContractSet :
        /\ last = NoCall
        /\ market_cache' =
               IF market[symbol] = NoData THEN market_cache
               ELSE [market_cache EXCEPT ![symbol] = market[symbol]]
        /\ last' = [op |-> "get_market_data", symbol |-> symbol,
                    result |-> market[symbol]]
        /\ UNCHANGED <<market, frameAnalyzer>>

\* select_best_pairs(max_pairs): the PairScore list
SelectBestPairsWith(limits) ==
    \E max_pairs \in limits :
        LET selected == select_best_pairs(max_pairs, TradingDefaults)
        IN  /\ last = NoCall
            /\ market_cache' =
                   [y \in ContractSet |->
                       IF market[y] = NoData THEN market_cache[y]
                       ELSE market[y]]
            /\ last' = [op |-> "select_best_pairs", max_pairs |-> max_pairs,
                        result |->
                            [k \in 1..Len(selected) |->
                                calculate_pair_score(selected[k],
                                                     market[selected[k]],
                                                     TradingDefaults)]]
            /\ UNCHANGED market

\* SpecRisk: every signal and portfolio argument of assess_signal, in every
\* state of the controller that losing trades lead to.
AssessSignal == AssessSignalWith(SignalSet, PortfolioArgs) /\ UNCHANGED otherVars
RecordLoss == OnTradeResultWith({-5}, MaxResults) /\ UNCHANGED otherVars

InitController ==
    /\ market_conditions = DefaultMarketConditions
    /\ performance = DefaultPerformance
    /\ tie_up = {}
    /\ current_params = InitialParams
    /\ returned = NoParams
    /\ trade_results = << >>
    /\ recorded = 0
    /\ InitRisk
    /\ InitManager
    /\ InitBot
    /\ InitStrategies
    /\ InitMarket
    /\ last = NoCall

NextRisk ==
    \/ AssessSignal
    \/ RecordLoss
    \/ ResetState
    \/ Return

SpecRisk == InitController /\ [][NextRisk]_vars

\* SpecLosses: every sequence of trade results, with a signal assessed in
\* between.
LossSignals ==
    { s \in SignalSet : s.confidence = 75 /\ s.leverage = 7 /\ s.stop_loss = 0 }
LossPortfolios ==
    { p \in PortfolioArgs : p.unrealized_pnl = 0 /\ p.daily_pnl = 0
                            /\ p.total_balance \in {80000, 100000} }
AssessDuringLosses ==
    AssessSignalWith(LossSignals, LossPortfolios) /\ UNCHANGED otherVars
OnTradeResult ==
    OnTradeResultWith({-5, 0, 5}, MaxResults) /\ UNCHANGED otherVars

NextLosses ==
    \/ AssessDuringLosses
    \/ OnTradeResult
    \/ Return

SpecLosses == InitController /\ [][NextLosses]_vars

\* SpecManager: the PositionManager against the exchange.
ManagerSignals ==
    { s \in SignalsFor(Symbols, {75}) : s.stop_loss = 0 /\ s.leverage = 25 }
OpenPosition ==
    /\ last = NoCall
    /\ OpenPositionWith(ManagerSignals)
    /\ UNCHANGED frameManager

NextManager ==
    \/ AccountMove
    \/ GetPortfolioState
    \/ OpenPosition
    \/ ClosePosition
    \/ ResetDailyStats
    \/ Return

\* MAX_OPEN_POSITIONS of the deployment: limits the two symbols can reach.
OpenPositionLimits == {1, 2}

InitSmallAccount ==
    /\ market_conditions = DefaultMarketConditions
    /\ performance = DefaultPerformance
    /\ tie_up = {}
    /\ current_params = InitialParams
    /\ returned = NoParams
    /\ trade_results = << >>
    /\ recorded = 0
    /\ config \in { [DefaultConfig EXCEPT !.max_open_positions = limit] :
                        limit \in OpenPositionLimits }
    /\ InitCounters
    /\ InitManager
    /\ InitBot
    /\ InitStrategies
    /\ InitMarket
    /\ last = NoCall

SpecManager == InitSmallAccount /\ [][NextManager]_vars

\* SpecSize: position sizing over percentages, leverage caps, prices and
\* balances on both sides of every branch of calculate_position_size.
SizePercents == {10, 50, 75}
SizeLeverageCaps == {10, 19}
SizePrices == {1, 1000, 20000}
SizeSignals ==
    { [s EXCEPT !.price = price, !.take_profit = 0] :
          s \in { z \in SignalsFor({"BTC"}, {75}) :
                      z.stop_loss = 0 /\ z.leverage \in {1, 7, 25} },
          price \in SizePrices }
SizeAccounts ==
    AccountStates \cup {[equity |-> 100000, available |-> 100]}

InitSize ==
    /\ market_conditions = DefaultMarketConditions
    /\ performance = DefaultPerformance
    /\ tie_up = {}
    /\ current_params = InitialParams
    /\ returned = NoParams
    /\ trade_results = << >>
    /\ recorded = 0
    /\ config \in { [DefaultConfig EXCEPT !.max_position_size_percent = pct,
                                          !.max_leverage = cap] :
                        pct \in SizePercents, cap \in SizeLeverageCaps }
    /\ InitCounters
    /\ InitManager
    /\ InitBot
    /\ InitStrategies
    /\ InitMarket
    /\ last = NoCall

\* The exchange reports another balance.
BalanceMove ==
    /\ last = NoCall
    /\ \E a \in SizeAccounts : a # account /\ account' = a
    /\ UNCHANGED <<last, positions, orders_placed, managerVars, frameManager>>

\* calculate_position_size(signal, portfolio) on a portfolio just read
CalculatePositionSize ==
    /\ last = NoCall
    /\ \E signal \in SizeSignals, ok \in BOOLEAN :
           LET portfolio == get_portfolio_state(ok)
           IN  last' = [op |-> "calculate_position_size", signal |-> signal,
                        portfolio |-> portfolio,
                        result |-> calculate_position_size(signal, portfolio,
                                                           config)]
    /\ UNCHANGED <<exchangeVars, managerVars, frameManager>>

OpenSized ==
    /\ last = NoCall
    /\ OpenPositionWith(SizeSignals)
    /\ UNCHANGED frameManager

NextSize ==
    \/ BalanceMove
    \/ CalculatePositionSize
    \/ OpenSized
    \/ Return

SpecSize == InitSize /\ [][NextSize]_vars

\* Input grids: every branch of every factor, both sides of every
\* threshold, and the band of volatility in which stop_loss * 1.5 exceeds
\* the computed target.
Volatilities ==
    {0, 20, 29, 30, 50, 51, 80, 81} \cup (90 .. 100) \cup (112 .. 118)
        \cup {101, 104, 108, 125, 130, 150, 151, 250, 1000}
TrendStrengths == {-10, 0, 5}
WinRates == {0, 30, 39, 40, 60, 100}
TradeCounts == {9, 10}
SharpeRatios == {-40, 0, 14, 40}
AvgProfits == {0, 25, 80}

MarketConditionsSet ==
    [volatility : Volatilities, trend_strength : TrendStrengths,
     volume_ratio : {10}]
PerformanceSet ==
    [win_rate : WinRates, avg_profit : AvgProfits, avg_loss : {0},
     sharpe_ratio : SharpeRatios, total_trades : TradeCounts]

InitAdaptive ==
    /\ market_conditions \in MarketConditionsSet
    /\ performance \in PerformanceSet
    /\ tie_up \in TieSets
    /\ current_params = InitialParams
    /\ returned = NoParams
    /\ trade_results = << >>
    /\ recorded = 0
    /\ InitRisk
    /\ InitManager
    /\ InitBot
    /\ InitStrategies
    /\ InitMarket
    /\ last = NoCall

\* calculate_adaptive_parameters(market_conditions, performance)
CalculateAdaptive ==
    /\ current_params' =
           calculate_adaptive_parameters(market_conditions, performance, tie_up)
    /\ returned' = current_params'
    /\ UNCHANGED <<market_conditions, performance, tie_up, trade_results,
                    recorded, riskVars, last, exchangeVars, managerVars,
                    strategyVars, analyzerVars, botVars>>

\* calculate_adaptive_parameters() with both arguments None
CalculateAdaptiveDefault ==
    /\ current_params' =
           calculate_adaptive_parameters(DefaultMarketConditions,
                                         DefaultPerformance, tie_up)
    /\ returned' = current_params'
    /\ UNCHANGED <<market_conditions, performance, tie_up, trade_results,
                    recorded, riskVars, last, exchangeVars, managerVars,
                    strategyVars, analyzerVars, botVars>>

NextAdaptive ==
    \/ CalculateAdaptive
    \/ CalculateAdaptiveDefault

SpecAdaptive == InitAdaptive /\ [][NextAdaptive]_vars

(***************************************************************************)
(* SpecHistory: record_trade_result and get_performance_from_history.      *)
(* Results are in tenths.  The sums and the mean are binary floating-point *)
(* values: they are exact for the whole numbers recorded here, and for n   *)
(* results of 0.1 the mean sum/n is 0.1 again only for the n listed in     *)
(* TenthMeanExact (n up to 103).  sharpe_ratio is modelled by its sign.    *)
(***************************************************************************)
TRADE_RESULTS_LIMIT == 100

\* record_trade_result(pnl): _trade_results afterwards
record_trade_result(history, pnl) ==
    LET appended == Append(history, pnl)
    IN  IF Len(appended) > TRADE_RESULTS_LIMIT
        THEN SubSeq(appended, Len(appended) - TRADE_RESULTS_LIMIT + 1,
                    Len(appended))
        ELSE appended

TenthMeanExact == {1, 2, 4, 5, 13, 14, 44, 45}

\* mean_return == r for a history of n results r
MeanIsExact(r, n) == r # 1 \/ n \in TenthMeanExact

\* std_dev > 0
StdDevPositive(history) ==
    \/ \E i \in 1..Len(history) : history[i] # history[1]
    \/ ~MeanIsExact(history[1], Len(history))

\* get_performance_from_history()
get_performance_from_history(history) ==
    IF history = << >> THEN DefaultPerformance
    ELSE LET total == Len(history)
             wins == SelectSeq(history, LAMBDA r : r > 0)
             losses == SelectSeq(history, LAMBDA r : r < 0)
         IN  [win_rate |-> (Len(wins) * 100) \div total,
              avg_profit |-> IF wins = << >> THEN 0
                             ELSE Sum(wins) \div Len(wins),
              avg_loss |-> IF losses = << >> THEN 0
                           ELSE Abs(Sum(losses)) \div Len(losses),
              sharpe_ratio |->
                  IF total >= 2 /\ StdDevPositive(history)
                  THEN IF Sum(history) > 0 THEN 1
                       ELSE IF Sum(history) < 0 THEN -1 ELSE 0
                  ELSE 0,
              total_trades |-> total]

PnlValues == {-500, 1, 750}
MaxShortHistory == 3
LongHistory == 98
MaxLongHistory == 102

\* The histories recorded before: nothing, or 98 results in two runs.
InitHistory ==
    /\ market_conditions = DefaultMarketConditions
    /\ performance = DefaultPerformance
    /\ tie_up = {}
    /\ current_params = InitialParams
    /\ returned = NoParams
    /\ \/ trade_results = << >> /\ recorded = 0
       \/ /\ recorded = LongHistory
          /\ \E a \in PnlValues, b \in PnlValues, k \in {0, 40} :
                 trade_results =
                     [i \in 1..LongHistory |-> IF i <= k THEN a ELSE b]
    /\ InitRisk
    /\ InitManager
    /\ InitBot
    /\ InitStrategies
    /\ InitMarket
    /\ last = NoCall

RecordTradeResult ==
    \E pnl \in PnlValues :
        /\ last = NoCall
        /\ \/ recorded < MaxShortHistory
           \/ recorded >= LongHistory /\ recorded < MaxLongHistory
        /\ trade_results' = record_trade_result(trade_results, pnl)
        /\ recorded' = recorded + 1
        /\ last' = [op |-> "record_trade_result", pnl |-> pnl]
        /\ UNCHANGED <<market_conditions, performance, tie_up, current_params,
                       returned, riskVars, exchangeVars, managerVars,
                       strategyVars, analyzerVars, botVars>>

GetPerformanceFromHistory ==
    /\ last = NoCall
    /\ last' = [op |-> "get_performance_from_history",
                result |-> get_performance_from_history(trade_results)]
    /\ UNCHANGED <<adaptiveVars, riskVars, exchangeVars, managerVars,
                   strategyVars, analyzerVars, botVars>>

NextHistory ==
    \/ RecordTradeResult
    \/ GetPerformanceFromHistory
    \/ Return

SpecHistory == InitHistory /\ [][NextHistory]_vars

(***************************************************************************)
(* Claims about AdaptiveRiskSettings                                       *)
(***************************************************************************)
ParamsInBounds(p) ==
    /\ p.max_leverage \in MIN_LEVERAGE .. MAX_LEVERAGE_CAP
    /\ p.max_position_size_percent \in MIN_POSITION_SIZE .. MAX_POSITION_SIZE
    /\ p.stop_loss_percent \in MIN_STOP_LOSS .. MAX_STOP_LOSS
    /\ p.take_profit_percent \in MIN_TAKE_PROFIT .. MAX_TAKE_PROFIT

\* C1: whatever the inputs, the parameters returned by
\* calculate_adaptive_parameters have max_leverage in [1,20] (an integer),
\* max_position_size_percent in [1.0,10.0], stop_loss_percent in [0.5,5.0]
\* and take_profit_percent in [1.0,10.0], and so has the current-parameters
\* snapshot in every state, the initial one included.
C1_ParametersBounded ==
    /\ ParamsInBounds(current_params)
    /\ returned # NoParams => ParamsInBounds(returned)

\* C1 witness: a calculation was made whose position size was raised to
\* the lower bound (volatility 0.25 with a negative Sharpe ratio gives
\* 3.0 * 0.4 * 0.5 = 0.6 before the clamp).
C1_Witness ==
    /\ returned # NoParams
    /\ returned = calculate_adaptive_parameters(market_conditions,
                                                performance, tie_up)
    /\ market_conditions.volatility = 250
    /\ performance.sharpe_ratio = -40 /\ performance.total_trades = 10
    /\ returned.max_position_size_percent = MIN_POSITION_SIZE

\* C2 (as claimed): the take-profit that is returned and stored, after
\* rounding and clamping, is at least 1.5 times the stop-loss.
C2_TakeProfitRatio ==
    /\ 10 * current_params.take_profit_percent
           >= 15 * current_params.stop_loss_percent
    /\ returned # NoParams =>
           10 * returned.take_profit_percent >= 15 * returned.stop_loss_percent

(***************************************************************************)
(* Claims about RiskController                                             *)
(***************************************************************************)
\* A step that is a call of assess_signal.
AssessStep == last.op # "assess_signal" /\ last'.op = "assess_signal"

ReasonOf(result) ==
    IF result.outcome = "returned" THEN result.reason ELSE result.outcome

\* C3: assess_signal first raises the recorded peak to
\* max(peak, portfolio.total_balance); whenever the drawdown from that peak,
\* (peak - total_balance) / peak, is above 0.15 the signal is rejected with
\* approved False, no adjusted signal, risk score 1.0 and a drawdown reason,
\* whatever the signal, the losses recorded and the rest of the portfolio.
C3_DrawdownRejects ==
    [][AssessStep =>
        LET total == last'.portfolio.total_balance
        IN  /\ peak_balance' = Max(peak_balance, total)
            /\ (peak_balance' > 0
                    /\ (peak_balance' - total) * 100 > 15 * peak_balance')
               => /\ last'.result.outcome = "returned"
                  /\ last'.result.approved = FALSE
                  /\ last'.result.adjusted_signal = NoSignal
                  /\ last'.result.risk_score = 1000
                  /\ last'.result.reason = "drawdown"]_vars

\* C3 witness: with five losses recorded and the daily loss limit broken,
\* a signal assessed at balance 80000 under a peak of 100000 (20% drawdown) was
\* rejected for the drawdown.
C3_Witness ==
    /\ last.op = "assess_signal"
    /\ peak_balance = 100000
    /\ last.portfolio.total_balance = 80000
    /\ last.portfolio.daily_pnl = -11000
    /\ consecutive_losses >= 5
    /\ last.result.approved = FALSE
    /\ last.result.reason = "drawdown"

RECURSIVE TrailingLosses(_)
\* The length of the trailing run of negative results.
TrailingLosses(seq) ==
    IF seq = << >> THEN 0
    ELSE IF seq[Len(seq)] < 0
    THEN 1 + TrailingLosses(SubSeq(seq, 1, Len(seq) - 1))
    ELSE 0

\* C4: consecutive_losses is the length of the trailing run of results with
\* pnl < 0 (a result with pnl >= 0 resets it); assess_signal rejects for
\* consecutive losses exactly when that run is at least 5 and the drawdown
\* gate did not reject first; after a non-losing result the signal is not
\* rejected for consecutive losses.
C4_ConsecutiveLosses ==
    /\ consecutive_losses = TrailingLosses(results)
    /\ last.op = "assess_signal" =>
          LET total == last.portfolio.total_balance
              drawdown_rejects ==
                  peak_balance > 0
                      /\ (peak_balance - total) * 100 > 15 * peak_balance
          IN  /\ ReasonOf(last.result) = "consecutive_losses"
                    <=> (TrailingLosses(results) >= 5 /\ ~drawdown_rejects)
              /\ (results # << >> /\ results[Len(results)] >= 0)
                    => ReasonOf(last.result) # "consecutive_losses"

\* C4 witness: five losses, then a result of zero, and the signal assessed
\* after it was approved.
C4_Witness ==
    /\ last.op = "assess_signal"
    /\ results = <<-5, -5, -5, -5, -5, 0>>
    /\ consecutive_losses = 0
    /\ last.result.approved = TRUE

(***************************************************************************)
(* SpecArbitrator: get_best_signal over every combination of strategy      *)
(* answers, between performance updates and enable_strategy calls.         *)
(***************************************************************************)
MaxScored == 1

ScoreTrade ==
    UpdateStrategyPerformanceWith({100}, MaxScored)
        /\ UNCHANGED frameStrategy

NextArbitrator ==
    \/ GetBestSignal
    \/ ScoreTrade
    \/ EnableStrategy
    \/ Return

SpecArbitrator == InitController /\ [][NextArbitrator]_vars

(***************************************************************************)
(* SpecAdjust: auto_adjust_strategies on recorded histories.  The first    *)
(* strategy starts from a history of 19 to 21 trades (an optional old      *)
(* trade, then wins, then losses), the second from one of two histories.   *)
(***************************************************************************)
Run(value, count) == [i \in 1..count |-> value]

Histories ==
    { old \o Run(win, wins) \o Run(loss, count - wins) :
        old \in {<< >>, <<-100>>, <<100>>},
        count \in {RECENT_TRADES - 1, RECENT_TRADES},
        wins \in 0..RECENT_TRADES, win \in {1, 2}, loss \in {-3, -1, 0} }

OtherHistories == { Run(2, 12) \o Run(-1, 8), Run(1, 4) \o Run(-1, 16) }

MaxHistory == 21

InitAdjust ==
    /\ market_conditions = DefaultMarketConditions
    /\ performance = DefaultPerformance
    /\ tie_up = {}
    /\ current_params = InitialParams
    /\ returned = NoParams
    /\ trade_results = << >>
    /\ recorded = 0
    /\ InitRisk
    /\ InitManager
    /\ InitBot
    /\ InitMarket
    /\ \E first \in { h \in Histories : Len(h) <= MaxHistory },
          second \in OtherHistories, flags \in [StrategySet -> BOOLEAN] :
           /\ strategy_performance =
                  [name \in StrategySet |->
                      IF name = StrategyNames[1] THEN first ELSE second]
           /\ strategies =
                  [name \in StrategySet |->
                      [enabled |-> flags[name],
                       performance_score |->
                           ScoreOf(IF name = StrategyNames[1] THEN first
                                   ELSE second)]]
    /\ last_signals = [name \in StrategySet |-> NoSignal]
    /\ last = NoCall

RecordTrade ==
    UpdateStrategyPerformanceWith({-20}, MaxHistory)
        /\ UNCHANGED frameStrategy

NextAdjust ==
    \/ AutoAdjustStrategies
    \/ RecordTrade
    \/ Return

SpecAdjust == InitAdjust /\ [][NextAdjust]_vars

(***************************************************************************)
(* SpecPairs: select_best_pairs on every market of the grid.               *)
(***************************************************************************)
MarketStates ==
    {NoData} \cup [volume_24h : {200, 500, 1000}, volatility : {10, 20, 150, 200}]
PairLimits == {1, 2, 5}

InitPairs ==
    /\ market_conditions = DefaultMarketConditions
    /\ performance = DefaultPerformance
    /\ tie_up = {}
    /\ current_params = InitialParams
    /\ returned = NoParams
    /\ trade_results = << >>
    /\ recorded = 0
    /\ InitRisk
    /\ InitManager
    /\ InitBot
    /\ InitStrategies
    /\ market \in [ContractSet -> MarketStates]
    /\ market_cache = [y \in ContractSet |-> NoData]
    /\ last = NoCall

SelectBestPairs == SelectBestPairsWith(PairLimits) /\ UNCHANGED frameAnalyzer

NextPairs ==
    \/ GetMarketData
    \/ SelectBestPairs
    \/ Return

SpecPairs == InitPairs /\ [][NextPairs]_vars

(***************************************************************************)
(* Spec: the decision pipeline.  The adaptive update writes the engine's   *)
(* parameters into the configuration shared by RiskController and          *)
(* PositionManager; signals are assessed and the adjusted signal of an     *)
(* approval, or any other signal, is handed to open_position.              *)
(***************************************************************************)
PipelineConditions ==
    { [volatility |-> v, trend_strength |-> t, volume_ratio |-> 10] :
        v \in {50, 250}, t \in {0} }
PipelinePerformances ==
    { DefaultPerformance,
      [total_trades |-> 10, win_rate |-> 100, sharpe_ratio |-> 0,
       avg_profit |-> 0, avg_loss |-> 0] }
PipelineTies == { {}, {"leverage", "size", "stop", "target"} }

\* The config left as it was (a faulty variant).
UnwrittenConfig(cfg, params) == cfg

\* update_adaptive_parameters: the controller's config after the update
WrittenConfig(cfg, params) ==
    [cfg EXCEPT
        !.max_leverage = params.max_leverage,
        !.max_position_size_percent = params.max_position_size_percent,
        !.stop_loss_percent = params.stop_loss_percent,
        !.take_profit_percent = params.take_profit_percent]

\* update_adaptive_parameters(conditions, performance): in adaptive mode the
\* engine's result is written into the controller's config and returned;
\* otherwise nothing is computed and None is returned.
UpdateAdaptive ==
    \E mc \in PipelineConditions, perf \in PipelinePerformances,
       ties \in PipelineTies :
        LET params == calculate_adaptive_parameters(mc, perf, ties)
        IN  /\ last = NoCall
            /\ IF config.adaptive_mode
               THEN /\ market_conditions' = mc
                    /\ performance' = perf
                    /\ tie_up' = ties
                    /\ current_params' = params
                    /\ returned' = params
                    /\ UNCHANGED <<trade_results, recorded>>
                    /\ config' = WrittenConfig(config, params)
                    /\ last' = [op |-> "update_adaptive_parameters",
                                params |-> params]
               ELSE /\ last' = [op |-> "update_adaptive_parameters",
                                params |-> NoParams]
                    /\ UNCHANGED <<adaptiveVars, config>>
            /\ UNCHANGED <<consecutive_losses, peak_balance, results,
                           exchangeVars, managerVars, strategyVars,
                           analyzerVars, botVars>>

PipelineSignals ==
    { s \in SignalsFor({"BTC"}, {75}) : s.signal_type = "long" }
OrderSignals ==
    { s \in SignalsFor({"BTC"}, {75}) : s.leverage = 25 /\ s.stop_loss = 0 }
PipelinePortfolios ==
    { p \in PortfolioArgs : p.total_balance = 100000 /\ p.daily_pnl = 0 }
MaxLosses == 3

AssessProposed ==
    /\ last = NoCall
    /\ AssessSignalWith(PipelineSignals, PipelinePortfolios)
    /\ UNCHANGED otherVars

\* _process_signal: the adjusted signal of an approval goes to open_position.
OpenAdjusted ==
    /\ last.op = "assess_signal"
    /\ last.result.outcome = "returned"
    /\ last.result.approved
    /\ OpenPositionWith({last.result.adjusted_signal})
    /\ UNCHANGED frameManager

OpenProposed ==
    /\ last = NoCall
    /\ OpenPositionWith(OrderSignals)
    /\ UNCHANGED frameManager

LosingTrade ==
    /\ last = NoCall
    /\ OnTradeResultWith({-5}, MaxLosses)
    /\ UNCHANGED otherVars

Next ==
    \/ UpdateAdaptive
    \/ AssessProposed
    \/ OpenAdjusted
    \/ OpenProposed
    \/ LosingTrade
    \/ Return

\* ADAPTIVE_RISK_MODE of the deployment is on or off.
InitPipeline ==
    /\ market_conditions = DefaultMarketConditions
    /\ performance = DefaultPerformance
    /\ tie_up = {}
    /\ current_params = InitialParams
    /\ returned = NoParams
    /\ trade_results = << >>
    /\ recorded = 0
    /\ config \in { [DefaultConfig EXCEPT !.adaptive_mode = mode] :
                        mode \in BOOLEAN }
    /\ InitCounters
    /\ InitManager
    /\ InitBot
    /\ InitStrategies
    /\ InitMarket
    /\ last = NoCall

Spec == InitPipeline /\ [][Next]_vars

(***************************************************************************)
(* Claims about PositionManager, checked under SpecManager.                *)
(***************************************************************************)
HeldSymbols(portfolio) == { pos.symbol : pos \in portfolio.positions }

\* C6: can_open_position returns False whenever the portfolio already holds a
\* position on the signal's symbol or already holds max_open_positions
\* positions; open_position, which re-reads the portfolio and asks
\* can_open_position before ordering, therefore never places an order for a
\* symbol that has an open position in the portfolio read at order time.
C6_OpenAdmission ==
    last.op = "open_position" =>
        /\ (\/ last.signal.symbol \in HeldSymbols(last.portfolio)
            \/ Cardinality(last.portfolio.positions)
                   >= config.max_open_positions)
           => last.can_open # "OK" /\ ~last.placed
        /\ last.placed => last.signal.symbol \notin HeldSymbols(last.portfolio)

\* C6 witness: open_position was called for a symbol already held, while the
\* position limit still had room, and placed no order.
C6_Witness ==
    /\ last.op = "open_position"
    /\ last.signal.symbol \in HeldSymbols(last.portfolio)
    /\ Cardinality(last.portfolio.positions) < config.max_open_positions
    /\ last.can_open = "Already in position"
    /\ ~last.placed
    /\ orders_placed = 1

RECURSIVE PnlSince(_, _)
\* Sum of the pnl of the trades recorded after the first n.
PnlSince(history, n) ==
    IF Len(history) <= n THEN 0
    ELSE history[Len(history)].pnl + PnlSince(SubSeq(history, 1, Len(history) - 1), n)

\* The counters held by the manager follow the trades closed and the orders
\* placed since the last reset_daily_stats.
CountersHeld ==
    /\ daily_pnl = PnlSince(trade_history, trades_at_reset)
    /\ daily_trades = orders_placed - orders_at_reset

\* C10: daily_pnl and trade_count are reset only by reset_daily_stats; between
\* two resets they equal the realized pnl of the trades closed and the number
\* of orders placed since, as held by the manager and as reported in every
\* PortfolioState it builds, also after failed requests.
C10_DailyCounters ==
    /\ CountersHeld
    /\ last.op = "get_portfolio_state"
           => /\ last.portfolio.daily_pnl = daily_pnl
              /\ last.portfolio.trade_count = daily_trades

(***************************************************************************)
(* Claims about the pipeline, checked under Spec.                          *)
(***************************************************************************)
\* C5: the leverage carried by an approved adjusted signal and the leverage
\* open_position passes to place_order never exceed the max_leverage
\* configured at that moment, also right after an adaptive update has written
\* a new max_leverage, whatever leverage the signal proposes.
C5_LeverageCapped ==
    /\ (last.op = "assess_signal" /\ last.result.outcome = "returned"
            /\ last.result.approved)
           => last.result.adjusted_signal.leverage <= config.max_leverage
    /\ (last.op = "open_position" /\ last.placed)
           => last.order.leverage <= config.max_leverage

\* C5 witness: after an adaptive update lowered max_leverage, a signal
\* proposing leverage 25 was approved with its leverage cut to that maximum.
C5_Witness ==
    /\ returned # NoParams
    /\ config.max_leverage = returned.max_leverage
    /\ config.max_leverage < 10
    /\ last.op = "assess_signal"
    /\ last.result.outcome = "returned"
    /\ last.result.approved
    /\ last.signal.leverage = 25
    /\ last.result.adjusted_signal.leverage = config.max_leverage

(***************************************************************************)
(* SpecTicker: get_market_data on every ticker of the grid.  A ticker      *)
(* holds the turnover fields (thousands of USD) and a base-asset volume;   *)
(* a negative value stands for a field the ticker does not have.           *)
(***************************************************************************)
Present(field) == field >= 0

Tickers ==
    [turnover24h : {-1, 0, 6000}, turnover : {-1, 0, 3000},
     turnoverOf24h : {-1, 0, 5000}, vol24h : {-1, 100}]

\* get_market_data, lines 39-48: volume
TickerVolume(ticker) ==
    IF Present(ticker.turnover) THEN ticker.turnover
    ELSE IF Present(ticker.turnoverOf24h) THEN ticker.turnoverOf24h
    ELSE 0

\* get_market_data(symbol) for a ticker of the exchange; the klines give a
\* volatility of 0.04.
FetchMarketData ==
    \E symbol \in ContractSet, ticker \in Tickers :
        LET data == [volume_24h |-> TickerVolume(ticker), volatility |-> 40]
        IN  /\ last = NoCall
            /\ market_cache' = [market_cache EXCEPT ![symbol] = data]
            /\ last' = [op |-> "get_market_data", symbol |-> symbol,
                        ticker |-> ticker, result |-> data]
            /\ UNCHANGED <<market, frameAnalyzer>>

NextTicker ==
    \/ FetchMarketData
    \/ Return

SpecTicker == InitController /\ [][NextTicker]_vars

(***************************************************************************)
(* SpecCycle: _trading_cycle.  last holds the running cycle: the portfolio *)
(* read at its start, the pause reason, and what its last step did.  The   *)
(* exits stand for the exits of _check_positions and for the CLOSE signals *)
(* of the pair loop, at the market price of the moment.                    *)
(***************************************************************************)
\* should_pause_trading that never pauses (a faulty variant).
never_pause_trading(portfolio, cfg, peak, losses) == ""

\* should_pause_trading without the daily-loss check (a faulty variant).
pause_ignoring_daily_loss(portfolio, cfg, peak, losses) ==
    IF DrawdownExceeded(peak, portfolio.total_balance) THEN "drawdown"
    ELSE IF losses >= MAX_CONSECUTIVE_LOSSES THEN "consecutive_losses"
    ELSE ""

\* should_pause_trading without the consecutive-loss check (a faulty variant).
pause_ignoring_losses(portfolio, cfg, peak, losses) ==
    IF DrawdownExceeded(peak, portfolio.total_balance) THEN "drawdown"
    ELSE IF DailyLossExceeded(cfg, portfolio.total_balance,
                              portfolio.daily_pnl)
    THEN "daily_loss"
    ELSE ""

\* should_pause_trading(portfolio): the reason, "" for (False, "")
should_pause_trading(portfolio, cfg, peak, losses) ==
    IF DrawdownExceeded(peak, portfolio.total_balance) THEN "drawdown"
    ELSE IF losses >= MAX_CONSECUTIVE_LOSSES THEN "consecutive_losses"
    ELSE IF DailyLossExceeded(cfg, portfolio.total_balance,
                              portfolio.daily_pnl)
    THEN "daily_loss"
    ELSE ""

MaxCycleTrades == 5

CycleSignals ==
    { [signal_type |-> "long", symbol |-> "BTC", confidence |-> 75,
       price |-> 2, stop_loss |-> 1, take_profit |-> 3, leverage |-> 7],
      [signal_type |-> "long", symbol |-> "ETH", confidence |-> 75,
       price |-> 1000, stop_loss |-> 950, take_profit |-> 1100,
       leverage |-> 1] }

\* market_data.price when a position is closed: a contract entered at 2
\* has fallen to 1; of those entered at 1000, ETH has fallen to 800 or
\* risen to 1400, BTC has fallen to 800 and the others have risen to 1400.
CycleExits(position) ==
    IF position.entry_price = 2 THEN {1}
    ELSE IF position.symbol = "ETH" THEN {800, 1400}
    ELSE IF position.symbol = "BTC" THEN {800}
    ELSE {1400}

\* A cycle that goes on whatever the pause check said (a faulty variant).
CycleAlwaysContinues(pause) == TRUE

\* _trading_cycle, lines 190-192: 'if should_pause: ... return'; the cycle
\* goes on to the exit checks and the pair loop only when not paused.
CycleContinues(pause) == pause = ""

\* _trading_cycle, lines 186-193: the portfolio read and the pause check
StartCycle ==
    \E ok \in BOOLEAN :
        LET portfolio == get_portfolio_state(ok)
        IN  /\ last = NoCall
            /\ last' = [op |-> "trading_cycle", step |-> "start",
                        portfolio |-> portfolio,
                        pause |-> should_pause_trading(portfolio, config,
                                      peak_balance, consecutive_losses),
                        exits |-> 0, strategy_name |-> "none",
                        result |-> NoSignal]
            /\ UNCHANGED <<adaptiveVars, riskVars, exchangeVars, managerVars,
                           strategyVars, analyzerVars, botVars>>

\* The pending map that keeps a closed symbol's entry (a faulty variant).
PendingKept(pending, symbol) == pending

\* del self._pending_signals[symbol]
PendingRemoved(pending, symbol) == [pending EXCEPT ![symbol] = NoPending]

\* update_strategy_performance(strategy_name, profit_loss): the strategy
\* objects and the recorded outcomes afterwards.
StrategiesAfter(name, profit_loss) ==
    [strategies EXCEPT ![name].performance_score =
        update_performance(@, profit_loss)]
PerformanceAfter(name, profit_loss) ==
    LET appended == Append(strategy_performance[name], profit_loss)
    IN  [strategy_performance EXCEPT ![name] =
            IF Len(appended) > HISTORY_LIMIT
            THEN SubSeq(appended, Len(appended) - HISTORY_LIMIT + 1,
                        Len(appended))
            ELSE appended]

\* An exit within the cycle, for a position with a pending signal:
\* close_position(symbol, strategy_name, price) and, when it returns a
\* trade, on_trade_result(trade.pnl), update_strategy_performance and the
\* removal of the pending entry.  closing is the exchange's answer; limit
\* bounds the number of trades and symbols are the contracts whose
\* position can be closed now.
CycleExitWithin(limit, symbols) ==
    \E symbol \in symbols, closing \in {"ok", "failed"} :
        /\ last.op = "trading_cycle"
        /\ CycleContinues(last.pause)
        /\ last.step # "adjust"
        /\ positions[symbol] # NoPosition
        /\ pending_signals[symbol] # NoPending
        /\ Len(results) < limit
        /\ Len(trade_history) - trades_at_reset < limit
        /\ \E exit_price \in CycleExits(positions[symbol]) :
               LET position == positions[symbol]
                   strategy_name == pending_signals[symbol].strategy_name
                   pnl == RealizedPnl(position, exit_price)
                   trade == [symbol |-> symbol, side |-> position.side,
                             entry_price |-> position.entry_price,
                             exit_price |-> exit_price,
                             size |-> position.size,
                             leverage |-> position.leverage, pnl |-> pnl,
                             strategy_name |-> strategy_name]
               IN  IF closing = "ok"
                   THEN /\ trade_history' = Append(trade_history, trade)
                        /\ daily_pnl' = daily_pnl + pnl
                        /\ consecutive_losses' =
                               on_trade_result(consecutive_losses, pnl)
                        /\ results' = Append(results, pnl)
                        /\ strategies' = StrategiesAfter(strategy_name, pnl)
                        /\ strategy_performance' =
                               PerformanceAfter(strategy_name, pnl)
                        /\ pending_signals' =
                               PendingRemoved(pending_signals, symbol)
                        /\ positions' =
                               [positions EXCEPT ![symbol] = NoPosition]
                        /\ last' = [last EXCEPT !.step = "exit",
                                                !.exits = @ + 1]
                   ELSE /\ last' = [last EXCEPT !.step = "exit_failed"]
                        /\ UNCHANGED <<trade_history, daily_pnl,
                                       consecutive_losses, results,
                                       strategies, strategy_performance,
                                       pending_signals, positions>>
        /\ UNCHANGED <<config, peak_balance, account, orders_placed,
                       daily_trades, trades_at_reset, orders_at_reset,
                       adaptiveVars, last_signals, analyzerVars>>

CycleExit == CycleExitWithin(MaxCycleTrades, DOMAIN positions)

\* The strategy a signal of the cycle comes from: the signal carries its
\* originating strategy's name, and get_signals has called that strategy.
CycleProducer(signal) ==
    IF signal.price = 2 THEN "Scalping" ELSE "TrendFollowing"

\* _process_signal(signal, portfolio) with the portfolio of the cycle's
\* start: assess_signal, can_open_position, then open_position, which reads
\* the portfolio again and places the order, which the exchange accepts;
\* the adjusted signal and its strategy become the symbol's pending entry.
\* signals are the best signals the strategies can produce.
ProcessSignalFrom(signals) ==
    \E signal \in signals, read_ok \in BOOLEAN :
        LET strategy_name == CycleProducer(signal)
            result == assess_signal(signal, last.portfolio, config,
                                    peak_balance', consecutive_losses)
            adjusted == result.adjusted_signal
            fresh == get_portfolio_state(read_ok)
            placed ==
                /\ result.approved
                /\ can_open_position(adjusted, last.portfolio, config,
                                     daily_pnl) = "OK"
                /\ can_open_position(adjusted, fresh, config, daily_pnl) = "OK"
        IN  /\ last.op = "trading_cycle"
            /\ CycleContinues(last.pause)
            /\ last.step # "adjust"
            /\ Invoked(strategy_name)
            /\ peak_balance' = RaisedPeak(peak_balance, last.portfolio)
            /\ result.outcome = "returned"
            /\ last' = [last EXCEPT !.step = "signal", !.result = result,
                                    !.strategy_name = strategy_name]
            /\ IF placed
               THEN /\ positions' =
                          [positions EXCEPT ![signal.symbol] =
                              [symbol |-> signal.symbol, side |-> "long",
                               size |-> OrderFor(adjusted, fresh, config).size,
                               entry_price |-> signal.price,
                               leverage |->
                                   OrderFor(adjusted, fresh, config).leverage,
                               unrealized_pnl |-> 0]]
                    /\ orders_placed' = orders_placed + 1
                    /\ daily_trades' = daily_trades + 1
                    /\ pending_signals' =
                           [pending_signals EXCEPT ![signal.symbol] =
                               [signal |-> adjusted,
                                strategy_name |-> strategy_name]]
               ELSE UNCHANGED <<positions, orders_placed, daily_trades,
                                pending_signals>>
            /\ UNCHANGED <<config, consecutive_losses, results, account,
                           daily_pnl, trade_history, trades_at_reset,
                           orders_at_reset, adaptiveVars, strategyVars,
                           analyzerVars>>

ProcessSignal == ProcessSignalFrom(CycleSignals)

\* _trading_cycle, line 252: auto_adjust_strategies() ends the cycle
CycleAdjust ==
    /\ last.op = "trading_cycle"
    /\ CycleContinues(last.pause)
    /\ last.step # "adjust"
    /\ strategies' =
           [name \in StrategySet |->
               [strategies[name] EXCEPT
                   !.enabled = AdjustedEnabled(@, strategy_performance[name])]]
    /\ last' = [last EXCEPT !.step = "adjust"]
    /\ UNCHANGED <<adaptiveVars, riskVars, exchangeVars, managerVars,
                   strategy_performance, last_signals, analyzerVars, botVars>>

\* reset_state() called from outside the trading loop, between two cycles,
\* after the losses that pause trading
ExternalReset ==
    /\ last = NoCall
    /\ consecutive_losses >= MAX_CONSECUTIVE_LOSSES
    /\ ResetState

NextCycle ==
    \/ StartCycle
    \/ CycleExit
    \/ ProcessSignal
    \/ CycleAdjust
    \/ ExternalReset
    \/ AccountMove
    \/ Return

SpecCycle == InitController /\ [][NextCycle]_vars

(***************************************************************************)
(* SpecDisable: the trading cycles of a bot whose TrendFollowing strategy  *)
(* has 19 recorded outcomes and holds one position on every symbol, with   *)
(* max_open_positions raised to their number.  reset_daily_stats() and     *)
(* reset_state() were called after the 19th trade.                         *)
(***************************************************************************)
\* The contracts in the order in which the exchange lists their positions.
DisableListing == <<"BTC", "SOL", "XRP", "ADA", "DOT", "LTC", "ETH">>
DisableSymbols == { DisableListing[k] : k \in 1..Len(DisableListing) }

MaxDisableTrades == 7

\* The outcomes recorded so far, oldest first: six losses of 20, then five
\* wins of 2 among eight losses of 1.
DisableHistory ==
    <<-20, -20, -20, -20, -20, -20,
      2, -1, -1, 2, -1, -1, 2, -1, -1, 2, -1, -1, 2>>

\* The Trade record behind an outcome: 20 contracts at leverage 4 closed
\* at 750, or 5 contracts at leverage 1 closed at 1400 or at 800.
DisableTrade(pnl) ==
    [symbol |-> "BTC", side |-> "long", entry_price |-> 1000,
     exit_price |-> IF pnl = -20 THEN 750 ELSE IF pnl = 2 THEN 1400 ELSE 800,
     size |-> IF pnl = -20 THEN 20 ELSE 5,
     leverage |-> IF pnl = -20 THEN 4 ELSE 1,
     pnl |-> pnl, strategy_name |-> "TrendFollowing"]

\* The signal TrendFollowing produces for a symbol.
DisableSignal(symbol) ==
    [signal_type |-> "long", symbol |-> symbol, confidence |-> 75,
     price |-> 1000, stop_loss |-> 950, take_profit |-> 1100, leverage |-> 1]

DisableSignals == { DisableSignal("BTC") }

InitDisable ==
    /\ market_conditions = DefaultMarketConditions
    /\ performance = DefaultPerformance
    /\ tie_up = {}
    /\ current_params = InitialParams
    /\ returned = NoParams
    /\ trade_results = << >>
    /\ recorded = 0
    /\ config = [DefaultConfig EXCEPT
                    !.max_open_positions = Cardinality(DisableSymbols)]
    /\ InitCounters
    /\ account = [equity |-> 100000,
                  available |-> 100000 - 5000 * Cardinality(DisableSymbols)]
    /\ positions =
           [y \in DisableSymbols |->
               [symbol |-> y, side |-> "long", size |-> 5,
                entry_price |-> 1000, leverage |-> 1, unrealized_pnl |-> 0]]
    /\ orders_placed = Len(DisableHistory) + Cardinality(DisableSymbols)
    /\ daily_pnl = 0
    /\ daily_trades = 0
    /\ trade_history =
           [k \in 1..Len(DisableHistory) |-> DisableTrade(DisableHistory[k])]
    /\ trades_at_reset = Len(DisableHistory)
    /\ orders_at_reset = Len(DisableHistory) + Cardinality(DisableSymbols)
    /\ pending_signals =
           [y \in DisableSymbols |->
               [signal |-> DisableSignal(y),
                strategy_name |-> "TrendFollowing"]]
    /\ strategies =
           [name \in StrategySet |->
               [enabled |-> TRUE,
                performance_score |->
                    IF name = "TrendFollowing" THEN ScoreOf(DisableHistory)
                    ELSE INITIAL_SCORE]]
    /\ strategy_performance =
           [name \in StrategySet |->
               IF name = "TrendFollowing" THEN DisableHistory ELSE << >>]
    /\ last_signals = [name \in StrategySet |-> NoSignal]
    /\ InitMarket
    /\ last = NoCall

\* The first position of the listing: the exchange closes the positions in
\* the order in which it lists them.
ListedFirst ==
    { DisableListing[k] : k \in
        { i \in 1..Len(DisableListing) :
            /\ positions[DisableListing[i]] # NoPosition
            /\ \A j \in 1..(i - 1) :
                   positions[DisableListing[j]] = NoPosition } }

DisableExit == CycleExitWithin(MaxDisableTrades, ListedFirst)

DisableProcessSignal == ProcessSignalFrom(DisableSignals)

NextDisable ==
    \/ StartCycle
    \/ DisableExit
    \/ DisableProcessSignal
    \/ CycleAdjust
    \/ Return

SpecDisable == InitDisable /\ [][NextDisable]_vars

(***************************************************************************)
(* SpecScore: performance scores under outcomes on both sides of the       *)
(* clamp, for a fresh strategy and for one with a long run of equal        *)
(* outcomes behind it.                                                     *)
(***************************************************************************)
ScorePnls == {-250, -100, 50, 100, 250}
MaxFreshScores == 2
LongRun == 30
ScoreRuns == { Run(value, count) : value \in {-250, 250}, count \in {0, LongRun} }

InitScore ==
    /\ market_conditions = DefaultMarketConditions
    /\ performance = DefaultPerformance
    /\ tie_up = {}
    /\ current_params = InitialParams
    /\ returned = NoParams
    /\ trade_results = << >>
    /\ recorded = 0
    /\ InitRisk
    /\ InitManager
    /\ InitBot
    /\ \E run \in ScoreRuns :
           /\ strategies =
                  [name \in StrategySet |->
                      [enabled |-> TRUE,
                       performance_score |->
                           IF name = "TrendFollowing" THEN ScoreOf(run)
                           ELSE INITIAL_SCORE]]
           /\ strategy_performance =
                  [name \in StrategySet |->
                      IF name = "TrendFollowing" THEN run ELSE << >>]
    /\ last_signals = [name \in StrategySet |-> NoSignal]
    /\ InitMarket
    /\ last = NoCall

\* update_strategy_performance(strategy_name, profit_loss)
ScoreOutcome ==
    \E name \in StrategySet, profit_loss \in ScorePnls :
        /\ last = NoCall
        /\ \/ Len(strategy_performance[name]) < MaxFreshScores
           \/ /\ Len(strategy_performance[name]) >= LongRun
              /\ Len(strategy_performance[name]) < LongRun + MaxFreshScores
        /\ strategies' = StrategiesAfter(name, profit_loss)
        /\ strategy_performance' = PerformanceAfter(name, profit_loss)
        /\ last' = [op |-> "update_strategy_performance", name |-> name,
                    profit_loss |-> profit_loss,
                    before |-> strategies[name].performance_score]
        /\ UNCHANGED <<last_signals, frameStrategy>>

NextScore ==
    \/ ScoreOutcome
    \/ Return

SpecScore == InitScore /\ [][NextScore]_vars

(***************************************************************************)
(* Claims about StrategyManager.                                           *)
(***************************************************************************)
\* C7: for every combination of strategy answers, performance scores and
\* enabled flags, get_best_signal returns either no signal or a signal of
\* type LONG, SHORT or CLOSE that one of the strategies just produced; a HOLD
\* signal is discarded and never returned.
C7_NeverHold ==
    last.op = "get_best_signal" =>
        \/ last.result = NoSignal
        \/ /\ last.result.signal_type \in {"long", "short", "close"}
           /\ \E name \in StrategySet : last.outputs[name] = last.result

\* C7 witness: the first strategy answered HOLD with the higher confidence,
\* the second a signal of lower confidence, and that signal was returned.
C7_Witness ==
    /\ last.op = "get_best_signal"
    /\ last.outputs["TrendFollowing"].signal_type = "hold"
    /\ last.outputs["TrendFollowing"].confidence = 80
    /\ last.outputs["Scalping"].signal_type = "short"
    /\ last.outputs["Scalping"].confidence = 50
    /\ strategies["TrendFollowing"].enabled
    /\ last.result = last.outputs["Scalping"]

\* The last 20 outcomes of a history.
Window(history) ==
    [i \in 1..20 |-> history[Len(history) - 20 + i]]

\* C8: one call of auto_adjust_strategies leaves the enabled flag of a
\* strategy with fewer than 20 outcomes unchanged; with 20 or more, over the
\* most recent 20, it disables the strategy if their sum < -10 and fewer
\* than 30% are positive, enables it if it was disabled and the sum > 5 and
\* more than 50% are positive, and otherwise keeps the flag.
C8_AutoAdjust ==
    last.op = "auto_adjust_strategies" =>
        \A name \in StrategySet :
            LET history == strategy_performance[name]
                before == last.before[name]
                after == strategies[name].enabled
            IN  IF Len(history) < 20 THEN after = before
                ELSE LET total == Sum(Window(history))
                         positive == Wins(Window(history))
                     IN  IF total < -10 /\ positive < 6 THEN ~after
                         ELSE IF ~before /\ total > 5 /\ positive > 10
                         THEN after
                         ELSE after = before

\* C8 witness: one call disabled the first strategy, whose 21 outcomes begin
\* with an old gain outside the window, and re-enabled the second.
C8_Witness ==
    /\ last.op = "auto_adjust_strategies"
    /\ last.before["TrendFollowing"]
    /\ ~strategies["TrendFollowing"].enabled
    /\ Len(strategy_performance["TrendFollowing"]) = 21
    /\ strategy_performance["TrendFollowing"][1] = 100
    /\ ~last.before["Scalping"]
    /\ strategies["Scalping"].enabled

(***************************************************************************)
(* Claims about MarketAnalyzer, checked under SpecPairs.                   *)
(***************************************************************************)
Fetched == { y \in ContractSet : market[y] # NoData }

Passing ==
    { y \in Fetched :
        /\ market[y].volume_24h >= 1000
        /\ market[y].volatility >= 20
        /\ market[y].volatility <= 150 }

Selected == { last.result[k].symbol : k \in 1..Len(last.result) }

\* C9: when at least one contract yields market data but none passes both
\* the volume and the volatility filter, select_best_pairs returns the
\* min(max_pairs, n) fetched pairs of highest 24h volume, by volume
\* descending, so never an empty list; when a pair passes the filters only
\* passing pairs are returned.
C9_Fallback ==
    last.op = "select_best_pairs" =>
        /\ (Fetched # {} /\ Passing = {})
               => /\ Len(last.result) = Min(last.max_pairs, Cardinality(Fetched))
                  /\ Len(last.result) >= 1
                  /\ Cardinality(Selected) = Len(last.result)
                  /\ Selected \subseteq Fetched
                  /\ \A i, j \in 1..Len(last.result) :
                         i < j => market[last.result[i].symbol].volume_24h
                                      >= market[last.result[j].symbol].volume_24h
                  /\ \A y \in Fetched \ Selected, z \in Selected :
                         market[z].volume_24h >= market[y].volume_24h
        /\ Passing # {} => Selected \subseteq Passing

\* C9 witness: two contracts with volumes 200 and 500 (thousand), below the
\* minimum, and a valid volatility, the third without data: both are
\* returned, the larger volume first.
C9_Witness ==
    /\ last.op = "select_best_pairs"
    /\ last.max_pairs = 5
    /\ market["SOLUSDTM"] = [volume_24h |-> 200, volatility |-> 20]
    /\ market["ETHUSDTM"] = [volume_24h |-> 500, volatility |-> 150]
    /\ market["XBTUSDTM"] = NoData
    /\ Len(last.result) = 2
    /\ last.result[1].symbol = "ETHUSDTM"
    /\ last.result[2].symbol = "SOLUSDTM"

\* The distance of a stop from the price is at least pct tenths of a percent.
StopAtLeast(signal, pct) ==
    signal.stop_loss = 0
        \/ Abs(signal.price - signal.stop_loss) * 1000 >= pct * signal.price

\* C11: in adaptive mode update_adaptive_parameters returns the parameters
\* the engine has just computed and leaves the controller's config equal to
\* them, and every later approved assessment caps the leverage and widens the
\* stop with these values; with adaptive mode off it returns None and the
\* config is unchanged.
C11_AdaptiveUpdate ==
    [][/\ (last = NoCall /\ last'.op = "update_adaptive_parameters")
           => IF config.adaptive_mode
              THEN /\ last'.params =
                          calculate_adaptive_parameters(market_conditions',
                                                        performance', tie_up')
                   /\ current_params' = last'.params
                   /\ config'.max_leverage = last'.params.max_leverage
                   /\ config'.max_position_size_percent
                          = last'.params.max_position_size_percent
                   /\ config'.stop_loss_percent
                          = last'.params.stop_loss_percent
                   /\ config'.take_profit_percent
                          = last'.params.take_profit_percent
              ELSE last'.params = NoParams /\ config' = config
       /\ (last = NoCall /\ last'.op = "assess_signal"
               /\ returned # NoParams /\ last'.result.approved)
           => /\ last'.result.adjusted_signal.leverage <= returned.max_leverage
              /\ StopAtLeast(last'.result.adjusted_signal,
                             returned.stop_loss_percent)]_vars

\* C11 witness: after an update that computed a stop-loss percent other than
\* the configured default, a signal with leverage 25 and a stop 1% away was
\* approved with the leverage and the stop of the new parameters.
C11_Witness ==
    /\ returned # NoParams
    /\ returned.stop_loss_percent > 20
    /\ last.op = "assess_signal"
    /\ last.result.approved
    /\ last.signal.leverage = 25
    /\ last.signal.stop_loss = 990
    /\ last.result.adjusted_signal.leverage = returned.max_leverage
    /\ (1000 - last.result.adjusted_signal.stop_loss) * 1000
           = returned.stop_loss_percent * 1000

\* The answers of analyze that are signals to act on.
Actionable(output) == output.signal_type \in {"long", "short", "close"}

\* C12: when analyze of an enabled strategy raises, get_best_signal still
\* returns: the failing strategy contributes no signal, the signal of every
\* other enabled strategy is collected, recorded as its last signal and a
\* signal is returned if there is one; analyze of a disabled strategy is not
\* called and its last signal stays.
C12_Isolation ==
    [][(last = NoCall /\ last'.op = "get_best_signal")
          => LET outs == last'.outputs
                 on == { name \in StrategySet : strategies[name].enabled }
             IN  /\ last'.invoked = on
                 /\ \A name \in StrategySet :
                        IF name \in on /\ Actionable(outs[name])
                        THEN /\ \E k \in 1..Len(last'.signals) :
                                    last'.signals[k] = outs[name]
                             /\ last_signals'[name] = outs[name]
                        ELSE last_signals'[name] = last_signals[name]
                 /\ \A k \in 1..Len(last'.signals) :
                        \E name \in on : /\ Actionable(outs[name])
                                         /\ outs[name] = last'.signals[k]
                 /\ (\E name \in on : Actionable(outs[name]))
                        => last'.result # NoSignal]_vars

\* C12 witness: analyze of the first strategy raised, the second strategy
\* answered a LONG signal, and that signal was returned.
C12_Witness ==
    /\ last.op = "get_best_signal"
    /\ last.invoked = StrategySet
    /\ last.outputs["TrendFollowing"] = Raises
    /\ last.outputs["Scalping"].signal_type = "long"
    /\ last.signals = <<last.outputs["Scalping"]>>
    /\ last.result = last.outputs["Scalping"]

\* The combined score of the signal a strategy produced in the last call.
OwnScore(name) ==
    last.outputs[name].confidence * strategies[name].performance_score

\* The strategies whose signal of the last call was collected.
Producers ==
    { i \in 1..Len(StrategyNames) :
        /\ StrategyNames[i] \in last.invoked
        /\ Actionable(last.outputs[StrategyNames[i]]) }

\* C13: get_best_signal returns the signal of the earliest strategy, in
\* registration order, among those whose signal of this call has the highest
\* confidence x performance_score of its own strategy; it returns a signal
\* whenever an enabled strategy produced a non-HOLD signal.
C13_BestSignal ==
    last.op = "get_best_signal" =>
        IF Producers = {} THEN last.result = NoSignal
        ELSE \E i \in Producers :
                /\ last.result = last.outputs[StrategyNames[i]]
                /\ \A j \in Producers :
                       OwnScore(StrategyNames[j]) <= OwnScore(StrategyNames[i])
                /\ \A j \in Producers :
                       j < i => OwnScore(StrategyNames[j])
                                    < OwnScore(StrategyNames[i])

\* C13 witness: both strategies produced signals of the same combined score
\* and the first strategy's signal was returned.
C13_Witness ==
    /\ last.op = "get_best_signal"
    /\ Producers = {1, 2}
    /\ OwnScore("TrendFollowing") = OwnScore("Scalping")
    /\ last.outputs["TrendFollowing"].signal_type = "long"
    /\ last.outputs["Scalping"].signal_type = "short"
    /\ last.result = last.outputs["TrendFollowing"]

\* The pause conditions that hold for a portfolio, a peak and a loss count.
Triggered(portfolio, peak, losses) ==
    { why \in {"drawdown", "consecutive_losses", "daily_loss"} :
        \/ /\ why = "drawdown"
           /\ peak > 0
           /\ (peak - portfolio.total_balance) * 100 > 15 * peak
        \/ why = "consecutive_losses" /\ losses >= 5
        \/ /\ why = "daily_loss"
           /\ portfolio.daily_pnl * 1000
                  < -(portfolio.total_balance * config.max_daily_loss_percent) }

\* Nothing was opened by the step.
NothingOpened ==
    /\ positions' = positions
    /\ orders_placed' = orders_placed
    /\ daily_trades' = daily_trades

\* C14: a trading cycle whose portfolio shows a drawdown of more than 15%
\* from the recorded peak, five or more consecutive losses or a daily loss
\* beyond the configured percentage ends at the pause check with one of
\* these reasons and places no order; and within a cycle, every signal
\* assessed while one of the conditions holds (the loss count also when an
\* exit of the same cycle raised it to 5) is rejected with one of the
\* triggering reasons and no order is placed.
C14_PausedNoOpen ==
    [][/\ (last = NoCall /\ last' # NoCall /\ last'.op = "trading_cycle")
           => /\ NothingOpened
              /\ IF Triggered(last'.portfolio, peak_balance,
                              consecutive_losses) = {}
                 THEN last'.pause = ""
                 ELSE last'.pause \in Triggered(last'.portfolio, peak_balance,
                                                consecutive_losses)
       /\ (last.op = "trading_cycle" /\ last.pause # "")
           => last' = NoCall /\ NothingOpened
       /\ (last.op = "trading_cycle" /\ last' # NoCall
               /\ last'.step = "signal"
               /\ Triggered(last.portfolio, peak_balance',
                            consecutive_losses) # {})
           => /\ ~last'.result.approved
              /\ last'.result.reason
                     \in Triggered(last.portfolio, peak_balance',
                                   consecutive_losses)
              /\ NothingOpened]_vars

\* C14 witness: a cycle that was not paused at its start closed a position
\* at a loss, the fifth in a row, and the signal processed after it was
\* rejected for the consecutive losses.
C14_Witness ==
    /\ last.op = "trading_cycle"
    /\ last.pause = ""
    /\ last.exits > 0
    /\ last.step = "signal"
    /\ consecutive_losses = 5
    /\ ~last.result.approved
    /\ last.result.reason = "consecutive_losses"

\* The most recent min(Len(all), 100) elements of a sequence.
MostRecent(all) ==
    LET n == IF Len(all) < 100 THEN Len(all) ELSE 100
    IN  [i \in 1..n |-> all[Len(all) - n + i]]

\* C15: record_trade_result keeps the most recent min(n, 100) of the n
\* results recorded so far, and get_performance_from_history reports
\* total_trades = min(n, 100) and win_rate = (held results > 0)/total_trades,
\* total_trades = 0 and win_rate = 0.5 with no results, and a sharpe_ratio of
\* 0 with fewer than 2 results or when all held results are equal.
C15_RollingWindow ==
    [][/\ (last = NoCall /\ last' # NoCall /\ last'.op = "record_trade_result")
           => /\ trade_results' = MostRecent(Append(trade_results, last'.pnl))
              /\ Len(trade_results') = Min(recorded', 100)
       /\ (last = NoCall /\ last' # NoCall
               /\ last'.op = "get_performance_from_history")
           => LET result == last'.result
                  n == Min(recorded, 100)
              IN  /\ result.total_trades = n
                  /\ Len(trade_results) = n
                  /\ result.win_rate =
                         IF n = 0 THEN 50
                         ELSE (Cardinality({ i \in 1..n : trade_results[i] > 0 })
                                   * 100) \div n
                  /\ (n < 2 \/ \A i \in 1..n : trade_results[i] = trade_results[1])
                         => result.sharpe_ratio = 0]_vars

\* C16: for a volatility above 0.10, whatever the trend, and a performance
\* with at least 10 trades and a win rate below 0.4, calculate_optimal_leverage
\* returns at most what it returns for the default inputs (volatility 0.05,
\* trend 0, no trades), and a value from 1 to 5.
C16_HighVolatilityPoorPerformance ==
    (/\ market_conditions.volatility > 100
     /\ performance.total_trades >= 10
     /\ performance.win_rate < 40)
        => LET leverage == calculate_optimal_leverage(market_conditions,
                                                      performance, tie_up)
           IN  /\ leverage <= calculate_optimal_leverage(DefaultMarketConditions,
                                                         DefaultPerformance,
                                                         tie_up)
               /\ leverage \in 1..5
               /\ returned # NoParams /\ returned.max_leverage # leverage
                      => returned.max_leverage =
                             calculate_optimal_leverage(DefaultMarketConditions,
                                                        DefaultPerformance,
                                                        tie_up)

\* C16 witness: the parameters were calculated for a volatility just above
\* 0.10, the strongest trend and a win rate of 0.39 over 10 trades: the
\* leverage is 2, below the 4 of the default inputs.
C16_Witness ==
    /\ market_conditions.volatility = 101
    /\ market_conditions.trend_strength = -10
    /\ performance.win_rate = 39 /\ performance.total_trades = 10
    /\ returned # NoParams
    /\ returned.max_leverage = 2
    /\ returned.max_leverage =
           calculate_optimal_leverage(market_conditions, performance, tie_up)
    /\ calculate_optimal_leverage(DefaultMarketConditions, DefaultPerformance,
                                  tie_up) = 4

\* The values of the turnover fields other than turnover24h that a ticker has.
OtherTurnovers(ticker) ==
    { v \in {ticker.turnover, ticker.turnoverOf24h} : v >= 0 }

\* C17: volume_24h of get_market_data is the ticker's turnover24h whenever
\* the ticker has this field, a zero included; without it, it is the
\* turnover or the turnoverOf24h the ticker has, and 0 when it has neither;
\* the base-asset volume is never taken.
C17_TurnoverPriority ==
    last.op = "get_market_data" =>
        LET ticker == last.ticker
            volume == last.result.volume_24h
        IN  IF ticker.turnover24h >= 0 THEN volume = ticker.turnover24h
            ELSE IF OtherTurnovers(ticker) # {}
            THEN volume \in OtherTurnovers(ticker)
            ELSE volume = 0

\* The gates of assess_signal that are open for a portfolio: its reasons.
OpenGates(portfolio, peak, losses) ==
    (IF peak > 0 /\ (peak - portfolio.total_balance) * 100 > 15 * peak
     THEN {"drawdown"} ELSE {})
    \cup (IF losses >= 5 THEN {"consecutive_losses"} ELSE {})
    \cup (IF portfolio.daily_pnl * 1000
                 < -(portfolio.total_balance * config.max_daily_loss_percent)
          THEN {"daily_loss"} ELSE {})

\* C18: assess_signal reports the first of drawdown, consecutive losses and
\* daily loss that triggers; when the first two pass it rejects for the daily
\* loss exactly when daily_pnl < -(total_balance x max_daily_loss_percent/100),
\* so a daily_pnl equal to the limit is not rejected.
C18_GateOrder ==
    [][AssessStep =>
        LET gates == OpenGates(last'.portfolio, peak_balance', consecutive_losses)
            reason == ReasonOf(last'.result)
        IN  /\ "drawdown" \in gates => reason = "drawdown"
            /\ "consecutive_losses" \in gates /\ "drawdown" \notin gates
                   => reason = "consecutive_losses"
            /\ gates \subseteq {"daily_loss"}
                   => (reason = "daily_loss" <=> "daily_loss" \in gates)
            /\ reason \in {"drawdown", "consecutive_losses", "daily_loss"}
                   => ~last'.result.approved]_vars

\* C18 witness: a daily_pnl of -10000 at a balance of 100000 (exactly the 10%
\* limit) was approved, with fewer than five losses and no drawdown.
C18_Witness ==
    /\ last.op = "assess_signal"
    /\ last.portfolio.total_balance = 100000
    /\ last.portfolio.daily_pnl = -10000
    /\ peak_balance = 100000
    /\ consecutive_losses = 4
    /\ last.result.outcome = "returned"
    /\ last.result.approved

\* An approved assessment has just been made.
ApprovedStep ==
    /\ AssessStep
    /\ last'.result.outcome = "returned"
    /\ last'.result.approved

\* C19: the leverage of an approved signal with proposed leverage L >= 1 is
\* max(1, L div 2) when the unrealized loss is above 5% of the balance, L
\* otherwise; then less consecutive_losses, not below 1, when there are more
\* than 2; then at most max_leverage.  It is from 1 to L, and below L with 3
\* or 4 consecutive losses and L >= 2.
C19_AdjustedLeverage ==
    [][ApprovedStep =>
        LET L == last'.signal.leverage
            portfolio == last'.portfolio
            adjusted == last'.result.adjusted_signal.leverage
            halved == IF portfolio.unrealized_pnl < 0
                          /\ -portfolio.unrealized_pnl * 100
                                 > 5 * portfolio.total_balance
                      THEN Max(1, L \div 2) ELSE L
            reduced == IF consecutive_losses > 2
                       THEN Max(1, halved - consecutive_losses) ELSE halved
        IN  /\ adjusted = Min(reduced, config.max_leverage)
            /\ adjusted >= 1 /\ adjusted <= L
            /\ consecutive_losses \in {3, 4} /\ L >= 2 => adjusted < L]_vars

\* C19 witness: with 3 consecutive losses a signal of leverage 2 was approved
\* with leverage 1.
C19_Witness ==
    /\ last.op = "assess_signal"
    /\ last.result.outcome = "returned"
    /\ last.result.approved
    /\ consecutive_losses = 3
    /\ last.signal.leverage = 2
    /\ last.portfolio.unrealized_pnl = 0
    /\ last.result.adjusted_signal.leverage = 1

\* C20: the stop of an approved LONG or SHORT signal with a stop is at least
\* stop_loss_percent of the price away from the price: a tighter stop becomes
\* price x (1 - pct/100) for a LONG and price x (1 + pct/100) for a SHORT, a
\* stop that far away or farther is kept, and an absent stop stays absent.
C20_StopWidened ==
    [][ApprovedStep =>
        LET signal == last'.signal
            stop == last'.result.adjusted_signal.stop_loss
            pct == config.stop_loss_percent
        IN  IF signal.stop_loss = 0 THEN stop = 0
            ELSE /\ Abs(signal.price - stop) * 1000 >= pct * signal.price
                 /\ IF Abs(signal.price - signal.stop_loss) * 1000
                           >= pct * signal.price
                    THEN stop = signal.stop_loss
                    ELSE stop * 1000 =
                             IF signal.signal_type = "long"
                             THEN signal.price * (1000 - pct)
                             ELSE signal.price * (1000 + pct)]_vars

\* C20 witness: a SHORT at 1000 with its stop at 1010 was approved with the
\* stop at 1020, 2% above the price.
C20_Witness ==
    /\ last.op = "assess_signal"
    /\ last.result.outcome = "returned"
    /\ last.result.approved
    /\ last.signal.signal_type = "short"
    /\ last.signal.price = 1000
    /\ last.signal.stop_loss = 1010
    /\ config.stop_loss_percent = 20
    /\ last.result.adjusted_signal.stop_loss = 1020


\* The exact contract count of a sizing call.
ExactOfLast == ExactContracts(last.signal, last.portfolio, config)

\* C21 as stated: calculate_position_size returns
\* max(1, floor(min(margin_budget, 0.9 * available) * leverage / price))
\* for every signal and every portfolio, never less than one contract.
C21_SizeAsStated ==
    last.op = "calculate_position_size" =>
        last.result = Max(1, ExactOfLast)

\* C21: calculate_position_size returns 0 when available_balance <= 0;
\* otherwise it returns at least one contract, namely max(1, n) where n is
\* the exact floor or, when floating point leaves the product below a whole
\* number of contracts, one less.
C21_PositionSize ==
    last.op = "calculate_position_size" =>
        IF last.portfolio.available_balance <= 0 THEN last.result = 0
        ELSE /\ last.result >= 1
             /\ last.result \in {Max(1, ExactOfLast), Max(1, ExactOfLast - 1)}
             /\ (~FloatBelow(config, Min(last.signal.leverage,
                                         config.max_leverage))
                    => last.result = Max(1, ExactOfLast))

\* A sizing call with balance available whose exact floor is 0: the result
\* is the one-contract floor.
C21_Witness ==
    /\ last.op = "calculate_position_size"
    /\ last.portfolio.available_balance > 0
    /\ ExactOfLast = 0
    /\ last.result = 1


\* C22: for every order placed by open_position, size * signal.price is at
\* most total_balance * max_position_size_percent / 100 of the portfolio
\* read when the order was placed.
C22_OrderWithinBudget ==
    (last.op = "open_position" /\ last.placed) =>
        last.order.size * last.signal.price * 1000
            <= last.portfolio.total_balance * config.max_position_size_percent


\* The step is a close_position call for a position the exchange then
\* closes.
ClosedByExchange ==
    /\ positions[last'.symbol] # NoPosition
    /\ positions'[last'.symbol] = NoPosition

\* C23: close_position appends exactly one TradeRecord and adds its pnl to
\* daily_pnl exactly when a position for the symbol exists and the exchange
\* close succeeds, with pnl = direction * (exit - entry) / entry * size *
\* leverage; otherwise it returns None and leaves the history and daily_pnl
\* unchanged; no other operation adds to the trade history.
C23_CloseRecords ==
    [][IF last.op = "none" /\ last'.op = "close_position"
       THEN IF ClosedByExchange
            THEN LET position == positions[last'.symbol]
                     trade == last'.trade
                     direction == IF position.side = "long" THEN 1 ELSE -1
                 IN  /\ trade # NoPosition
                     /\ trade_history' = Append(trade_history, trade)
                     /\ daily_pnl' = daily_pnl + trade.pnl
                     /\ trade.pnl * position.entry_price
                            = direction
                                * (trade.exit_price - position.entry_price)
                                * position.size * position.leverage
            ELSE /\ last'.trade = NoPosition
                 /\ UNCHANGED <<trade_history, daily_pnl>>
       ELSE trade_history' = trade_history]_vars

\* A short position closed above its entry: the record carries the loss
\* and daily_pnl has taken it.
C23_Witness ==
    /\ last.op = "close_position"
    /\ last.trade # NoPosition
    /\ last.trade.side = "short"
    /\ last.trade.pnl < 0
    /\ daily_pnl = last.trade.pnl
    /\ trade_history = <<last.trade>>


\* The trade the step has added to the trade history.
ClosedTrade == trade_history'[Len(trade_history')]

\* C24: every trade closed by the bot comes with exactly one
\* on_trade_result(pnl), one update_strategy_performance for the strategy of
\* the symbol's pending entry, and the removal of that entry, all within
\* the exit step, before any further signal is assessed;
\* on_trade_result is never called without a closed trade, and a failed
\* close leaves the pending entry and the counters unchanged.
C24_CloseFollowUp ==
    [][IF trade_history' # trade_history
       THEN LET name == pending_signals[ClosedTrade.symbol].strategy_name
            IN  /\ last'.step = "exit"
                /\ trade_history' = Append(trade_history, ClosedTrade)
                /\ results' = Append(results, ClosedTrade.pnl)
                /\ consecutive_losses' =
                       IF ClosedTrade.pnl < 0 THEN consecutive_losses + 1
                       ELSE 0
                /\ name \in StrategySet
                /\ ClosedTrade.strategy_name = name
                /\ strategy_performance' =
                       [strategy_performance EXCEPT ![name] =
                           Append(@, ClosedTrade.pnl)]
                /\ pending_signals' =
                       [pending_signals EXCEPT
                           ![ClosedTrade.symbol] = NoPending]
       ELSE /\ results' # results => last'.op = "reset_state"
            /\ strategy_performance' = strategy_performance
            /\ (last'.op = "trading_cycle" /\ last'.step = "exit_failed")
                   => UNCHANGED <<pending_signals, consecutive_losses,
                                  results, strategies, positions,
                                  daily_pnl>>]_vars

\* The second trade of a run has just been closed: it is Scalping's first,
\* recorded for Scalping, and the symbol's pending entry is gone.
C24_Witness ==
    /\ last.op = "trading_cycle"
    /\ last.step = "exit"
    /\ Len(trade_history) = 2
    /\ trade_history[2].strategy_name = "Scalping"
    /\ strategy_performance["Scalping"] = <<trade_history[2].pnl>>
    /\ results = <<trade_history[1].pnl, trade_history[2].pnl>>
    /\ pending_signals["BTC"] = NoPending


\* C25: a strategy's performance_score starts at 0.5 and stays within [0, 1]
\* after any sequence of update_performance calls, whatever the pnl (it is
\* clamped to [-100, 100] first), so that confidence * performance_score of
\* any signal lies within [0, 1].
C25_ScoreInRange ==
    \A name \in StrategySet :
        LET score == strategies[name].performance_score
        IN  /\ strategy_performance[name] = << >> => score = INITIAL_SCORE
            /\ score >= 0
            /\ score <= 1000000
            /\ \A signal \in StrategySignals(name) :
                   /\ signal.confidence * score >= 0
                   /\ signal.confidence * score <= 100 * 1000000
            /\ (last.op = "update_strategy_performance" /\ last.name = name)
                   => LET clamped == Max(Min(last.profit_loss, 100), -100)
                          target == 500000 + 5000 * clamped
                      IN  /\ 10 * score <= target + 9 * last.before + 5
                          /\ 10 * score > target + 9 * last.before - 5

\* After 30 outcomes of +250 the score is above 0.97, and one more outcome
\* of +250 has been recorded.
C25_Witness ==
    /\ last.op = "update_strategy_performance"
    /\ last.name = "TrendFollowing"
    /\ last.profit_loss = 250
    /\ last.before > 970000
    /\ Len(strategy_performance["TrendFollowing"]) = LongRun + 1
    /\ strategies["TrendFollowing"].performance_score >= last.before


\* C26: assess_signal returns a RiskAssessment without raising for every
\* signal and every portfolio whose total_balance is at least 0, including a
\* total_balance of 0 with a negative unrealized_pnl and no peak recorded.
C26_AssessReturns ==
    (last.op = "assess_signal" /\ last.portfolio.total_balance >= 0)
        => last.result.outcome = "returned"


\* C27: should_pause_trading(portfolio) returns True exactly when
\* assess_signal(signal, portfolio) in the same state (the peak before or
\* after the assessment, the same losses and config) returns
\* approved = False, and with the reason of the same gate.
C27_PauseMatchesRejection ==
    [][AssessStep =>
        LET before == should_pause_trading(last'.portfolio, config,
                                           peak_balance, consecutive_losses)
            after == should_pause_trading(last'.portfolio, config,
                                          peak_balance', consecutive_losses)
            rejected == /\ last'.result.outcome = "returned"
                        /\ ~last'.result.approved
        IN  /\ before = after
            /\ before # "" <=> rejected
            /\ rejected => before = last'.result.reason]_vars

\* A portfolio beyond the daily loss limit has been rejected by
\* assess_signal, and should_pause_trading pauses for it.
C27_Witness ==
    /\ last.op = "assess_signal"
    /\ last.result.outcome = "returned"
    /\ ~last.result.approved
    /\ last.result.reason = "daily_loss"
    /\ should_pause_trading(last.portfolio, config, peak_balance,
                            consecutive_losses) = "daily_loss"


\* The cycle just started has been stopped by the pause check.
PausedCycle == last.op = "trading_cycle" /\ last.pause # ""

\* Between two cycles, or in a cycle that has only read its portfolio.
AtCycleStart ==
    \/ last = NoCall
    \/ last.op = "trading_cycle" /\ last.step = "start"

\* C28: the consecutive-loss pause is absorbing inside the trading loop:
\* once consecutive_losses >= 5 at the start of a cycle, that cycle and every
\* later one stops at the pause check, no trade is closed, on_trade_result is
\* not called again and no position is opened, unless reset_state is called
\* from outside.
C28_LossPauseAbsorbing ==
    [][(consecutive_losses >= MAX_CONSECUTIVE_LOSSES /\ AtCycleStart) =>
        \/ last'.op = "reset_state"
        \/ /\ consecutive_losses' = consecutive_losses
           /\ UNCHANGED <<results, trade_history, positions, orders_placed,
                          daily_trades, daily_pnl, pending_signals,
                          strategies, strategy_performance>>
           /\ last'.op = "trading_cycle" => last'.pause # ""
           /\ last'.op \in {"none", "trading_cycle"}]_vars

\* A cycle has been stopped by the pause check after five losses in a row
\* while the position of another symbol is still held.
C28_Witness ==
    /\ PausedCycle
    /\ last.pause = "consecutive_losses"
    /\ consecutive_losses = MAX_CONSECUTIVE_LOSSES
    /\ \E y \in Symbols : positions[y] # NoPosition

\* What a step leaves alone when it changes nothing but the record of the
\* running operation.
OnlyLastChanges ==
    UNCHANGED <<adaptiveVars, riskVars, exchangeVars, managerVars,
                strategyVars, analyzerVars, botVars>>

\* C29: a trading cycle in which should_pause_trading returns True changes
\* nothing: the step that starts it and finds the pause and the step that
\* ends it leave the positions, the trade history, daily_pnl, the pending
\* map, the risk counters and every strategy's enabled flag, score and
\* history as they were, and no other step happens within the cycle.
C29_PausedCycleInert ==
    [][/\ (last = NoCall /\ last'.op = "trading_cycle" /\ last'.pause # "")
           => OnlyLastChanges
       /\ PausedCycle => (last' = NoCall /\ OnlyLastChanges)]_vars

\* C29 witness: a paused cycle while a position with a pending entry is
\* held whose stored stop-loss lies above a price the market can be at.
C29_Witness ==
    /\ PausedCycle
    /\ \E y \in Symbols :
           /\ positions[y] # NoPosition
           /\ pending_signals[y] # NoPending
           /\ pending_signals[y].signal.stop_loss > 0
           /\ \E price \in CycleExits(positions[y]) :
                  price < pending_signals[y].signal.stop_loss

\* The symbols whose pending entry is attributed to a strategy.
AttributedTo(name) ==
    { y \in DOMAIN pending_signals : pending_signals[y].strategy_name = name }

\* The most recent 20 outcomes of a strategy meet the re-enable condition.
Recovered(name) ==
    /\ Len(strategy_performance[name]) >= RECENT_TRADES
    /\ Sum(recent_history(strategy_performance[name])) > 5
    /\ Wins(recent_history(strategy_performance[name])) * 2 > RECENT_TRADES

\* A step in which a disabled strategy is not analysed, opens no position
\* and records an outcome only by closing a position attributed to it.
DisabledIdle(name) ==
    /\ (last'.op = "trading_cycle" /\ last'.step = "signal")
           => last'.strategy_name # name
    /\ \A y \in DOMAIN positions :
           /\ (pending_signals'[y] # pending_signals[y]
                   /\ pending_signals'[y] # NoPending)
                  => pending_signals'[y].strategy_name # name
           /\ (positions[y] = NoPosition /\ positions'[y] # NoPosition)
                  => pending_signals'[y].strategy_name # name
    /\ strategy_performance'[name] # strategy_performance[name]
           => \E y \in AttributedTo(name) :
                  /\ positions[y] # NoPosition
                  /\ positions'[y] = NoPosition
                  /\ pending_signals'[y] = NoPending
                  /\ Len(strategy_performance'[name])
                         = Len(strategy_performance[name]) + 1

\* C30 as stated: a disabled strategy is never analysed, opens no new
\* position and records outcomes only through positions attributed to it,
\* and once no pending entry is attributed to it every step, the
\* auto_adjust_strategies calls included, leaves its enabled flag False.
C30_DisabledAbsorbing ==
    [][\A name \in StrategySet :
           ~strategies[name].enabled
               => /\ DisabledIdle(name)
                  /\ AttributedTo(name) = {}
                         => ~strategies'[name].enabled]_vars

\* C30: a disabled strategy is never analysed, opens no new position and
\* records outcomes only through positions attributed to it; it is enabled
\* again only by an auto_adjust_strategies call that finds the re-enable
\* condition met by its most recent 20 outcomes; and once no pending entry
\* is attributed to it and that condition is not met, both stay so and the
\* flag stays False after every step.
C30_DisabledUntilRecovered ==
    [][\A name \in StrategySet :
           ~strategies[name].enabled
               => /\ DisabledIdle(name)
                  /\ strategies'[name].enabled
                         => /\ Recovered(name)
                            /\ last.op = "trading_cycle"
                            /\ last'.op = "trading_cycle"
                            /\ last'.step = "adjust"
                  /\ (AttributedTo(name) = {} /\ ~Recovered(name))
                         => /\ ~strategies'[name].enabled
                            /\ AttributedTo(name)' = {}
                            /\ ~Recovered(name)']_vars

\* C30 witness: auto_adjust_strategies has just left TrendFollowing
\* disabled, after outcomes of positions it had opened before being
\* disabled were recorded and none of its positions is left.
C30_Witness ==
    /\ last.op = "trading_cycle"
    /\ last.step = "adjust"
    /\ ~strategies["TrendFollowing"].enabled
    /\ AttributedTo("TrendFollowing") = {}
    /\ ~Recovered("TrendFollowing")
    /\ Len(strategy_performance["TrendFollowing"]) > RECENT_TRADES

====
